---- MODULE Spec2Model ----
(***************************************************************************)
(* Resumable SQLite -> DynamoDB migration tool (migration-tool/).          *)
(*                                                                         *)
(* The model follows one command-line process at a time (migrate.py): the  *)
(* persisted state document (migration_state.py), the target store as the  *)
(* item sets of its physical tables (dynamodb_manager.py), and the local   *)
(* variables of the running MigrationEngine (migration_engine.py).  A      *)
(* process can be killed between any two of its steps.                     *)
(***************************************************************************)
EXTENDS Integers, Sequences, FiniteSets, TLC

(***************************************************************************)
(* Bounds of the model: the size of the source database, the configured    *)
(* batch size and the number of error entries the state document may hold. *)
(***************************************************************************)
NumArtists == 3
NumCustomers == 3
NumInvoices == 3
NumPlaylists == 2
NumEmployees == 2
BatchSize == 2
MaxErrors == 3

NumAlbums == NumArtists - 1
NumTracks == NumAlbums

(***************************************************************************)
(* JSON / Python values that may be None, an int or a str.                 *)
(***************************************************************************)
None == [k |-> "none", v |-> 0]
JInt(n) == [k |-> "int", v |-> n]
JStr(s) == [k |-> "str", v |-> s]
Now == JStr("ts")

\* Python dict assignment d[k] = v
SetKey(d, k, v) == [x \in (DOMAIN d) \cup {k} |-> IF x = k THEN v ELSE d[x]]
\* Python dict.update(u)
Update(d, u) == [x \in (DOMAIN d) \cup (DOMAIN u) |-> IF x \in DOMAIN u THEN u[x] ELSE d[x]]

\* str(n) of a non-negative int
Str(n) == ToString(n)
\* the integer a decimal literal denotes (SQLite reading the number in a query text)
ParseInt(s) == CHOOSE n \in 0..(NumArtists + NumCustomers + 10) : ToString(n) = s
\* f"{x}" of an int or a str
Format(x) == IF x.k = "int" THEN Str(x.v) ELSE x.v

RECURSIVE SumSeq(_)
SumSeq(s) == IF s = <<>> THEN 0 ELSE Head(s) + SumSeq(Tail(s))

(***************************************************************************)
(* Python floats (IEEE-754 binary64, round-half-even) of amounts >= 0.01.   *)
(* A float is held exactly, as the number of 2^-60 units it is made of, in  *)
(* a little-endian sequence of limbs of four decimal digits.                *)
(***************************************************************************)
Limb == 10 ^ 4

RECURSIVE BigNorm(_)
BigNorm(a) == IF a # <<>> /\ a[Len(a)] = 0 THEN BigNorm(SubSeq(a, 1, Len(a) - 1)) ELSE a

RECURSIVE BigMul(_, _, _)
\* a * m + carry, m <= Limb
BigMul(a, m, carry) ==
    IF a = <<>> THEN (IF carry = 0 THEN <<>>
                      ELSE <<carry % Limb>> \o BigMul(<<>>, m, carry \div Limb))
    ELSE LET x == Head(a) * m + carry
         IN  <<x % Limb>> \o BigMul(Tail(a), m, x \div Limb)

RECURSIVE BigMulPow(_, _, _)
\* a * m^n
BigMulPow(a, m, n) == IF n = 0 THEN a ELSE BigMulPow(BigMul(a, m, 0), m, n - 1)

RECURSIVE BigAdd(_, _, _)
BigAdd(a, b, carry) ==
    IF a = <<>> /\ b = <<>> THEN (IF carry = 0 THEN <<>> ELSE <<carry>>)
    ELSE LET x == (IF a = <<>> THEN 0 ELSE Head(a)) + (IF b = <<>> THEN 0 ELSE Head(b)) + carry
         IN  <<x % Limb>> \o BigAdd(IF a = <<>> THEN <<>> ELSE Tail(a),
                                    IF b = <<>> THEN <<>> ELSE Tail(b), x \div Limb)

RECURSIVE BigDivMod(_, _)
\* quotient and remainder of a by d, d <= Limb
BigDivMod(a, d) ==
    IF a = <<>> THEN [q |-> <<>>, r |-> 0]
    ELSE LET hi == BigDivMod(Tail(a), d)
             x == hi.r * Limb + Head(a)
         IN  [q |-> BigNorm(<<x \div d>> \o hi.q), r |-> x % d]

RECURSIVE BigLess(_, _)
BigLess(a, b) ==
    IF Len(a) # Len(b) THEN Len(a) < Len(b)
    ELSE IF a = <<>> THEN FALSE
    ELSE IF a[Len(a)] # b[Len(b)] THEN a[Len(a)] < b[Len(b)]
    ELSE BigLess(SubSeq(a, 1, Len(a) - 1), SubSeq(b, 1, Len(b) - 1))

BigOdd(a) == a # <<>> /\ Head(a) % 2 = 1

\* floor(a / 10^n) in q, and in inexact whether anything was cut off
BigDivPow10(a, n) ==
    LET j == IF n \div 4 < Len(a) THEN n \div 4 ELSE Len(a)
        h == BigDivMod(SubSeq(a, j + 1, Len(a)), 10 ^ (n % 4))
    IN  [q |-> h.q, inexact |-> h.r # 0 \/ \E i \in 1..j : a[i] # 0]

\* a * 10^n
BigMulPow10(a, n) == BigMul([i \in 1..(n \div 4) |-> 0] \o a, 10 ^ (n % 4), 0)

\* a / 10^n rounded half-even to an integer
RoundCut(a, n) ==
    IF n = 0 THEN a
    ELSE LET cut == BigDivPow10(a, n - 1)
             h == BigDivMod(cut.q, 10)
         IN  IF h.r > 5 \/ (h.r = 5 /\ (cut.inexact \/ BigOdd(h.q)))
             THEN BigAdd(h.q, <<1>>, 0) ELSE h.q

Two53 == BigMulPow(<<1>>, 2, 53)

RECURSIVE RoundBits(_, _, _, _)
\* the float nearest to q * 2^k units, where guard is the last of the k bits
\* cut off and sticky tells whether a non-zero bit was cut off before it
RoundBits(q, k, guard, sticky) ==
    IF BigLess(q, Two53)
    THEN BigMulPow(IF guard = 1 /\ (sticky \/ BigOdd(q)) THEN BigAdd(q, <<1>>, 0) ELSE q, 2, k)
    ELSE LET h == BigDivMod(q, 2) IN RoundBits(h.q, k + 1, h.r, sticky \/ guard = 1)

\* float(n) of the decimal n * 10^e
FloatOf(n, e) ==
    LET units == BigMulPow(n, 4096, 5)
        x == IF e >= 0 THEN [q |-> BigMulPow10(units, e), inexact |-> FALSE]
             ELSE BigDivPow10(units, -e)
    IN  RoundBits(x.q, 0, 0, x.inexact)

\* a + b of two floats
FloatAdd(a, b) == RoundBits(BigAdd(a, b, 0), 0, 0, FALSE)

RECURSIVE BigDigits(_)
\* the decimal digits of a, most significant first, four per limb
BigDigits(a) ==
    IF a = <<>> THEN <<>>
    ELSE LET l == a[Len(a)]
         IN  <<l \div 1000, (l \div 100) % 10, (l \div 10) % 10, l % 10>>
             \o BigDigits(SubSeq(a, 1, Len(a) - 1))

RECURSIVE StripLeft(_)
StripLeft(ds) == IF ds # <<>> /\ Head(ds) = 0 THEN StripLeft(Tail(ds)) ELSE ds
RECURSIVE StripRight(_)
StripRight(ds) ==
    IF ds # <<>> /\ ds[Len(ds)] = 0 THEN StripRight(SubSeq(ds, 1, Len(ds) - 1)) ELSE ds
RECURSIVE DigitStr(_)
DigitStr(ds) == IF ds = <<>> THEN "" ELSE ToString(Head(ds)) \o DigitStr(Tail(ds))
RECURSIVE Zeros(_)
Zeros(n) == IF n <= 0 THEN "" ELSE "0" \o Zeros(n - 1)

\* repr(x) of a float: the shortest decimal that reads back as x
FloatRepr(x) ==
    LET exact == BigMulPow(x, 3125, 12)           \* x = exact * 10^-60
        L == Len(StripLeft(BigDigits(exact)))
        Cut(k) == IF k >= L THEN 0 ELSE L - k
        Cand(k) == RoundCut(exact, Cut(k))
        ReadsBack(k) == FloatOf(Cand(k), Cut(k) - 60) = x
        Shortest[k \in 1..17] == IF k = 17 \/ ReadsBack(k) THEN k ELSE Shortest[k + 1]
        k == Shortest[1]
        all == StripLeft(BigDigits(Cand(k)))
        decpt == Len(all) + Cut(k) - 60
        ds == StripRight(all)
    IN  IF decpt <= 0 THEN "0." \o Zeros(-decpt) \o DigitStr(ds)
        ELSE IF decpt >= Len(ds) THEN DigitStr(ds) \o Zeros(decpt - Len(ds)) \o ".0"
        ELSE DigitStr(SubSeq(ds, 1, decpt)) \o "." \o DigitStr(SubSeq(ds, decpt + 1, Len(ds)))

BigOf(n) == BigNorm(<<n % Limb, (n \div Limb) % Limb, n \div (Limb * Limb)>>)
\* the float SQLite returns for a NUMERIC value with a fraction, held in cents
FloatOfCents(cents) == FloatOf(BigOf(cents), -2)

\* the two decimals of an amount held in cents, as repr prints them
CentsRepr(cents) ==
    LET frac == cents % 100
    IN  Str(cents \div 100) \o "." \o
        (IF frac % 10 = 0 THEN Str(frac \div 10)
         ELSE IF frac < 10 THEN "0" \o Str(frac) ELSE Str(frac))

\* str(Decimal(str(x))) of an amount SQLite returns from a NUMERIC column:
\* an int when the amount is whole, else the float nearest to it, whose
\* repr is the amount's own decimals (FloatRepr(FloatOfCents(cents)))
DecimalStr(cents) == IF cents % 100 = 0 THEN Str(cents \div 100) ELSE CentsRepr(cents)

RECURSIVE FloatSum(_, _)
\* sum() over floats, left to right
FloatSum(acc, s) ==
    IF s = <<>> THEN acc ELSE FloatSum(FloatAdd(acc, FloatOfCents(Head(s))), Tail(s))

\* str(Decimal(str(sum(float(t) for t in totals)))): sum() starts from the
\* int 0, and 0 + float(t) is float(t), whose repr is CentsRepr(t)
SumStr(totals) ==
    IF totals = <<>> THEN "0"
    ELSE IF Len(totals) = 1 THEN CentsRepr(totals[1])
    ELSE FloatRepr(FloatSum(FloatOfCents(Head(totals)), Tail(totals)))

(***************************************************************************)
(* The source database (fixed during a migration): ids are 1..N per table. *)
(***************************************************************************)
ArtistIds == 1..NumArtists
AlbumIds == 1..NumAlbums
TrackIds == 1..NumTracks
CustomerIds == 1..NumCustomers
InvoiceIds == 1..NumInvoices
PlaylistIds == 1..NumPlaylists
EmployeeIds == 1..NumEmployees

AlbumArtist(al) == ((al - 1) % NumArtists) + 1
TrackAlbum(t) == ((t - 1) % NumAlbums) + 1
\* the invoices go to the customers from the last one down to the second and then to the
\* last one again: the last customer has the first invoice and a later one
InvoiceCustomer(i) == NumCustomers - ((i - 1) % (NumCustomers - 1))
\* the day of the month of an invoice: the later invoice is dated earlier
InvoiceDay(i) == NumInvoices + 1 - i
CustomerRep(c) == ((c - 1) % NumEmployees) + 1
InvoiceTotalCents(i) == 99 * i
TrackPriceCents(t) == 99

\* ascending sequence of the ids in S
RECURSIVE SortedSeq(_)
SortedSeq(S) ==
    IF S = {} THEN <<>>
    ELSE LET m == CHOOSE x \in S : \A y \in S : x <= y
         IN  <<m>> \o SortedSeq(S \ {m})

ArtistName(a) == "Artist" \o Str(a)
AlbumTitle(al) == "Album" \o Str(al)
TrackName(t) == "Track" \o Str(t)
InvoiceDate(i) == "2009-01-0" \o Str(InvoiceDay(i))


\* Python truthiness of a nullable column value
Truthy(x) ==
    IF x.k = "none" THEN FALSE
    ELSE IF x.k = "int" THEN x.v # 0
    ELSE x.v # ""

\* item[k] = v when cond holds
Opt(item, cond, k, v) == IF cond THEN SetKey(item, k, v) ELSE item

(***************************************************************************)
(* Rows the engine's queries return (dict(row)), one operator per query.   *)
(***************************************************************************)
AlbumsOfArtist(a) == {al \in AlbumIds : AlbumArtist(al) = a}
TracksOfAlbum(al) == {t \in TrackIds : TrackAlbum(t) = al}
InvoicesOfCustomer(c) == {i \in InvoiceIds : InvoiceCustomer(i) = c}

ArtistRow(a) ==
    [ArtistId |-> a, Name |-> ArtistName(a),
     AlbumCount |-> Cardinality(AlbumsOfArtist(a)),
     TrackCount |-> Cardinality({t \in TrackIds : TrackAlbum(t) \in AlbumsOfArtist(a)})]

AlbumRow(al) ==
    [AlbumId |-> al, Title |-> AlbumTitle(al), ArtistId |-> AlbumArtist(al),
     ArtistName |-> ArtistName(AlbumArtist(al)),
     TrackCount |-> Cardinality(TracksOfAlbum(al))]

TrackRow(t) ==
    [TrackId |-> t, Name |-> TrackName(t), AlbumId |-> TrackAlbum(t),
     MediaTypeId |-> JInt(1), GenreId |-> JInt(1), Composer |-> None,
     Milliseconds |-> JInt(1000 * t), Bytes |-> JInt(0),
     UnitPrice |-> TrackPriceCents(t),
     AlbumTitle |-> AlbumTitle(TrackAlbum(t)),
     ArtistId |-> AlbumArtist(TrackAlbum(t)),
     ArtistName |-> ArtistName(AlbumArtist(TrackAlbum(t))),
     GenreName |-> JStr("Rock"), MediaTypeName |-> JStr("MPEG")]

CustomerRow(c) ==
    [CustomerId |-> c, FirstName |-> "First" \o Str(c), LastName |-> "Last" \o Str(c),
     Email |-> "c" \o Str(c) \o "@example.com", Country |-> "Canada", City |-> "Ottawa",
     Company |-> None, Address |-> JStr("1 Main St"), State |-> None,
     PostalCode |-> None, Phone |-> None, Fax |-> None,
     SupportRepId |-> JInt(CustomerRep(c)),
     RepFirstName |-> JStr("Rep"), RepLastName |-> JStr("E" \o Str(CustomerRep(c)))]

LineItemRow(i) ==
    [InvoiceLineId |-> i, TrackId |-> 1, UnitPrice |-> TrackPriceCents(1), Quantity |-> 1,
     TrackName |-> JStr(TrackName(1)), ArtistName |-> JStr(ArtistName(1)),
     AlbumTitle |-> JStr(AlbumTitle(1))]

InvoiceRow(i) ==
    [InvoiceId |-> i, InvoiceDate |-> InvoiceDate(i), Total |-> InvoiceTotalCents(i),
     BillingAddress |-> JStr("1 Main St"), BillingCity |-> JStr("Ottawa"),
     BillingState |-> None, BillingCountry |-> JStr("Canada"),
     BillingPostalCode |-> None]

\* "ORDER BY c.CustomerId, i.InvoiceDate, il.InvoiceLineId" within one customer: the
\* invoices of S by date (the dates differ in the day only), then by their line item
RECURSIVE ByInvoiceDate(_)
ByInvoiceDate(S) ==
    IF S = {} THEN <<>>
    ELSE LET m == CHOOSE x \in S :
                      \A y \in S :
                          \/ InvoiceDay(x) < InvoiceDay(y)
                          \/ InvoiceDay(x) = InvoiceDay(y)
                                /\ LineItemRow(x).InvoiceLineId <= LineItemRow(y).InvoiceLineId
         IN  <<m>> \o ByInvoiceDate(S \ {m})

\* customers_data[c]['orders'].values(): the customer's invoices in the order the query
\* returns their rows
OrdersOf(c) ==
    LET ids == ByInvoiceDate(InvoicesOfCustomer(c))
    IN  [n \in 1..Len(ids) |->
            [invoice_data |-> InvoiceRow(ids[n]), line_items |-> <<LineItemRow(ids[n])>>]]

PlaylistTrackRow(t) ==
    [TrackId |-> t, TrackName |-> TrackName(t), Milliseconds |-> JInt(1000 * t),
     UnitPrice |-> JInt(TrackPriceCents(t)),
     ArtistName |-> JStr(ArtistName(AlbumArtist(TrackAlbum(t)))),
     AlbumTitle |-> JStr(AlbumTitle(TrackAlbum(t)))]

\* playlists_data[p]: playlist 1 holds every track, the others are empty
PlaylistData(p) ==
    [playlist_info |-> [PlaylistId |-> p, PlaylistName |-> "Playlist" \o Str(p)],
     tracks |-> IF p = 1 THEN [n \in 1..NumTracks |-> PlaylistTrackRow(n)] ELSE <<>>]

EmployeeRow(e) ==
    [EmployeeId |-> e, FirstName |-> "Rep", LastName |-> "E" \o Str(e),
     Title |-> "Agent", ReportsTo |-> IF e = 1 THEN None ELSE JInt(1),
     ManagerFirstName |-> IF e = 1 THEN None ELSE JStr("Rep"),
     ManagerLastName |-> IF e = 1 THEN None ELSE JStr("E1"),
     BirthDate |-> None, HireDate |-> JStr("2002-01-01"), Address |-> None,
     City |-> JStr("Ottawa"), State |-> None, Country |-> JStr("Canada"),
     PostalCode |-> None, Phone |-> None, Fax |-> None, Email |-> None,
     CustomerCount |-> Cardinality({c \in CustomerIds : CustomerRep(c) = e})]

(***************************************************************************)
(* DataTransformers: one pure function per source entity type.  An item is *)
(* a function from attribute names to DynamoDB attribute values.           *)
(***************************************************************************)
OrderEmbedLimit == 50
PlaylistEmbedLimit == 100

transform_artist(artist_data) ==
    [PK |-> [S |-> "ARTIST#" \o Str(artist_data.ArtistId)],
     SK |-> [S |-> "METADATA"],
     EntityType |-> [S |-> "Artist"],
     ArtistId |-> [N |-> Str(artist_data.ArtistId)],
     Name |-> [S |-> artist_data.Name],
     AlbumCount |-> [N |-> Str(artist_data.AlbumCount)],
     TrackCount |-> [N |-> Str(artist_data.TrackCount)],
     GSI1PK |-> [S |-> "ARTIST_NAME#" \o artist_data.Name],
     GSI1SK |-> [S |-> "ARTIST#" \o Str(artist_data.ArtistId)]]

transform_album(album_data) ==
    [PK |-> [S |-> "ARTIST#" \o Str(album_data.ArtistId)],
     SK |-> [S |-> "ALBUM#" \o Str(album_data.AlbumId)],
     EntityType |-> [S |-> "Album"],
     AlbumId |-> [N |-> Str(album_data.AlbumId)],
     Title |-> [S |-> album_data.Title],
     ArtistId |-> [N |-> Str(album_data.ArtistId)],
     ArtistName |-> [S |-> album_data.ArtistName],
     TrackCount |-> [N |-> Str(album_data.TrackCount)],
     GSI1PK |-> [S |-> "ALBUM_TITLE#" \o album_data.Title],
     GSI1SK |-> [S |-> "ALBUM#" \o Str(album_data.AlbumId)]]

transform_track(track_data) ==
    LET i0 == [PK |-> [S |-> "ALBUM#" \o Str(track_data.AlbumId)],
               SK |-> [S |-> "TRACK#" \o Str(track_data.TrackId)],
               EntityType |-> [S |-> "Track"],
               TrackId |-> [N |-> Str(track_data.TrackId)],
               Name |-> [S |-> track_data.Name],
               AlbumId |-> [N |-> Str(track_data.AlbumId)],
               AlbumTitle |-> [S |-> track_data.AlbumTitle],
               ArtistId |-> [N |-> Str(track_data.ArtistId)],
               ArtistName |-> [S |-> track_data.ArtistName],
               UnitPrice |-> [N |-> DecimalStr(track_data.UnitPrice)],
               GSI1PK |-> [S |-> "TRACK_NAME#" \o track_data.Name],
               GSI1SK |-> [S |-> "TRACK#" \o Str(track_data.TrackId)]]
        i1 == Opt(i0, Truthy(track_data.Composer), "Composer", [S |-> track_data.Composer.v])
        i2 == Opt(i1, Truthy(track_data.Milliseconds), "Milliseconds",
                  [N |-> Format(track_data.Milliseconds)])
        i3 == Opt(i2, Truthy(track_data.Bytes), "Bytes", [N |-> Format(track_data.Bytes)])
        g == Truthy(track_data.GenreId)
        i4 == Opt(i3, g, "GenreId", [N |-> Format(track_data.GenreId)])
        gn == g /\ Truthy(track_data.GenreName)
        i5 == Opt(i4, gn, "GenreName", [S |-> track_data.GenreName.v])
        i6 == Opt(i5, gn, "GSI2PK", [S |-> "GENRE#" \o track_data.GenreName.v])
        m == Truthy(track_data.MediaTypeId)
        i7 == Opt(i6, m, "MediaTypeId", [N |-> Format(track_data.MediaTypeId)])
    IN  Opt(i7, m /\ Truthy(track_data.MediaTypeName), "MediaTypeName",
            [S |-> track_data.MediaTypeName.v])

\* orders_data is the sequence of the customer's orders (a dict in insertion order)
transform_customer_profile(customer_data, orders_data) ==
    LET i0 == [PK |-> [S |-> "CUSTOMER#" \o Str(customer_data.CustomerId)],
               SK |-> [S |-> "PROFILE"],
               EntityType |-> [S |-> "CustomerProfile"],
               CustomerId |-> [N |-> Str(customer_data.CustomerId)],
               FirstName |-> [S |-> customer_data.FirstName],
               LastName |-> [S |-> customer_data.LastName],
               Email |-> [S |-> customer_data.Email],
               Country |-> [S |-> customer_data.Country],
               City |-> [S |-> customer_data.City],
               TotalOrders |-> [N |-> Str(Len(orders_data))],
               GSI1PK |-> [S |-> "EMAIL#" \o customer_data.Email],
               GSI1SK |-> [S |-> "CUSTOMER#" \o Str(customer_data.CustomerId)]]
        i1 == Opt(i0, Truthy(customer_data.Company), "Company", [S |-> customer_data.Company.v])
        i2 == Opt(i1, Truthy(customer_data.Address), "Address", [S |-> customer_data.Address.v])
        i3 == Opt(i2, Truthy(customer_data.State), "State", [S |-> customer_data.State.v])
        i4 == Opt(i3, Truthy(customer_data.PostalCode), "PostalCode",
                  [S |-> customer_data.PostalCode.v])
        i5 == Opt(i4, Truthy(customer_data.Phone), "Phone", [S |-> customer_data.Phone.v])
        i6 == Opt(i5, Truthy(customer_data.Fax), "Fax", [S |-> customer_data.Fax.v])
        r == Truthy(customer_data.SupportRepId)
        i7 == Opt(i6, r, "SupportRepId", [N |-> Format(customer_data.SupportRepId)])
        i8 == Opt(i7, r /\ Truthy(customer_data.RepFirstName) /\ Truthy(customer_data.RepLastName),
                  "SupportRepName",
                  [S |-> customer_data.RepFirstName.v \o " " \o customer_data.RepLastName.v])
        totals == [n \in 1..Len(orders_data) |-> orders_data[n].invoice_data.Total]
        total_spent == SumStr(SelectSeq(totals, LAMBDA t : t # 0))
    IN  SetKey(i8, "TotalSpent", [N |-> total_spent])

transform_line_item(line_item) ==
    LET m0 == [InvoiceLineId |-> [N |-> Str(line_item.InvoiceLineId)],
               TrackId |-> [N |-> Str(line_item.TrackId)],
               UnitPrice |-> [N |-> DecimalStr(line_item.UnitPrice)],
               Quantity |-> [N |-> Str(line_item.Quantity)]]
        m1 == Opt(m0, Truthy(line_item.TrackName), "TrackName", [S |-> line_item.TrackName.v])
        m2 == Opt(m1, Truthy(line_item.ArtistName), "ArtistName", [S |-> line_item.ArtistName.v])
    IN  [M |-> Opt(m2, Truthy(line_item.AlbumTitle), "AlbumTitle",
                   [S |-> line_item.AlbumTitle.v])]

transform_customer_order(customer_id, order_data) ==
    LET invoice_data == order_data.invoice_data
        line_items == order_data.line_items
        i0 == [PK |-> [S |-> "CUSTOMER#" \o Str(customer_id)],
               SK |-> [S |-> "ORDER#" \o invoice_data.InvoiceDate \o "#"
                                \o Str(invoice_data.InvoiceId)],
               EntityType |-> [S |-> "Order"],
               InvoiceId |-> [N |-> Str(invoice_data.InvoiceId)],
               InvoiceDate |-> [S |-> invoice_data.InvoiceDate],
               Total |-> [N |-> DecimalStr(invoice_data.Total)],
               LineItemCount |-> [N |-> Str(Len(line_items))]]
        i1 == Opt(i0, Truthy(invoice_data.BillingAddress), "BillingAddress",
                  [S |-> invoice_data.BillingAddress.v])
        i2 == Opt(i1, Truthy(invoice_data.BillingCity), "BillingCity",
                  [S |-> invoice_data.BillingCity.v])
        i3 == Opt(i2, Truthy(invoice_data.BillingState), "BillingState",
                  [S |-> invoice_data.BillingState.v])
        i4 == Opt(i3, Truthy(invoice_data.BillingCountry), "BillingCountry",
                  [S |-> invoice_data.BillingCountry.v])
        i5 == Opt(i4, Truthy(invoice_data.BillingPostalCode), "BillingPostalCode",
                  [S |-> invoice_data.BillingPostalCode.v])
    IN  Opt(i5, Len(line_items) <= OrderEmbedLimit, "LineItems",
            [L |-> [n \in 1..Len(line_items) |-> transform_line_item(line_items[n])]])

transform_playlist_track(track) ==
    LET m0 == [TrackId |-> [N |-> Str(track.TrackId)], Name |-> [S |-> track.TrackName]]
        m1 == Opt(m0, Truthy(track.Milliseconds), "Duration", [N |-> Format(track.Milliseconds)])
        m2 == Opt(m1, Truthy(track.UnitPrice), "UnitPrice",
                  [N |-> DecimalStr(track.UnitPrice.v)])
        m3 == Opt(m2, Truthy(track.ArtistName), "ArtistName", [S |-> track.ArtistName.v])
    IN  [M |-> Opt(m3, Truthy(track.AlbumTitle), "AlbumTitle", [S |-> track.AlbumTitle.v])]

\* variant: a playlist of exactly PlaylistEmbedLimit tracks is already too large
transform_playlist_strict(playlist_data) ==
    LET playlist_info == playlist_data.playlist_info
        tracks == playlist_data.tracks
        total_duration == SumSeq([n \in 1..Len(tracks) |->
                                    IF Truthy(tracks[n].Milliseconds)
                                    THEN tracks[n].Milliseconds.v ELSE 0])
        i0 == [PK |-> [S |-> "PLAYLIST#" \o Str(playlist_info.PlaylistId)],
               SK |-> [S |-> "METADATA"],
               EntityType |-> [S |-> "Playlist"],
               PlaylistId |-> [N |-> Str(playlist_info.PlaylistId)],
               Name |-> [S |-> playlist_info.PlaylistName],
               TrackCount |-> [N |-> Str(Len(tracks))],
               TotalDuration |-> [N |-> Str(total_duration)]]
    IN  IF Len(tracks) < PlaylistEmbedLimit
        THEN SetKey(i0, "Tracks",
                    [L |-> [n \in 1..Len(tracks) |-> transform_playlist_track(tracks[n])]])
        ELSE SetKey(i0, "LargePlaylist", [BOOL |-> TRUE])

transform_playlist(playlist_data) ==
    LET playlist_info == playlist_data.playlist_info
        tracks == playlist_data.tracks
        total_duration == SumSeq([n \in 1..Len(tracks) |->
                                    IF Truthy(tracks[n].Milliseconds)
                                    THEN tracks[n].Milliseconds.v ELSE 0])
        i0 == [PK |-> [S |-> "PLAYLIST#" \o Str(playlist_info.PlaylistId)],
               SK |-> [S |-> "METADATA"],
               EntityType |-> [S |-> "Playlist"],
               PlaylistId |-> [N |-> Str(playlist_info.PlaylistId)],
               Name |-> [S |-> playlist_info.PlaylistName],
               TrackCount |-> [N |-> Str(Len(tracks))],
               TotalDuration |-> [N |-> Str(total_duration)]]
    IN  IF Len(tracks) <= PlaylistEmbedLimit
        THEN SetKey(i0, "Tracks",
                    [L |-> [n \in 1..Len(tracks) |-> transform_playlist_track(tracks[n])]])
        ELSE SetKey(i0, "LargePlaylist", [BOOL |-> TRUE])

transform_employee(employee_data) ==
    LET i0 == [PK |-> [S |-> "EMPLOYEE#" \o Str(employee_data.EmployeeId)],
               SK |-> [S |-> "PROFILE"],
               EntityType |-> [S |-> "Employee"],
               EmployeeId |-> [N |-> Str(employee_data.EmployeeId)],
               FirstName |-> [S |-> employee_data.FirstName],
               LastName |-> [S |-> employee_data.LastName],
               Title |-> [S |-> employee_data.Title],
               CustomerCount |-> [N |-> Str(employee_data.CustomerCount)]]
        r == Truthy(employee_data.ReportsTo)
        i1 == Opt(i0, r, "ReportsTo", [N |-> Format(employee_data.ReportsTo)])
        i2 == Opt(i1, r /\ Truthy(employee_data.ManagerFirstName)
                        /\ Truthy(employee_data.ManagerLastName),
                  "ManagerName",
                  [S |-> employee_data.ManagerFirstName.v \o " "
                           \o employee_data.ManagerLastName.v])
        i3 == Opt(i2, Truthy(employee_data.BirthDate), "BirthDate", [S |-> employee_data.BirthDate.v])
        i4 == Opt(i3, Truthy(employee_data.HireDate), "HireDate", [S |-> employee_data.HireDate.v])
        i5 == Opt(i4, Truthy(employee_data.Address), "Address", [S |-> employee_data.Address.v])
        i6 == Opt(i5, Truthy(employee_data.City), "City", [S |-> employee_data.City.v])
        i7 == Opt(i6, Truthy(employee_data.State), "State", [S |-> employee_data.State.v])
        i8 == Opt(i7, Truthy(employee_data.Country), "Country", [S |-> employee_data.Country.v])
        i9 == Opt(i8, Truthy(employee_data.PostalCode), "PostalCode",
                  [S |-> employee_data.PostalCode.v])
        i10 == Opt(i9, Truthy(employee_data.Phone), "Phone", [S |-> employee_data.Phone.v])
        i11 == Opt(i10, Truthy(employee_data.Fax), "Fax", [S |-> employee_data.Fax.v])
    IN  Opt(i11, Truthy(employee_data.Email), "Email", [S |-> employee_data.Email.v])

(***************************************************************************)
(* MigrationState: the persisted state document and the operations on it.  *)
(* Every operation is load (get_state), change, save (_save_state); the    *)
(* operators below give the document saved, from the document loaded.      *)
(***************************************************************************)
TableOrder == <<"MusicCatalog", "CustomerOrders", "Playlists", "EmployeeManagement">>
TableNames == {TableOrder[n] : n \in 1..Len(TableOrder)}
MusicEntities == <<"artists", "albums", "tracks">>

EntityDefault == [total |-> 0, migrated |-> 0, last_id |-> None]

TableDefault ==
    [status |-> "not_started", total_records |-> 0, records_migrated |-> 0,
     last_processed_id |-> None, start_time |-> None, end_time |-> None]

default_state ==
    [status |-> "not_started", start_time |-> None, end_time |-> None,
     last_update |-> None, current_phase |-> None,
     tables |->
        [t \in TableNames |->
            IF t = "MusicCatalog"
            THEN SetKey(TableDefault, "entities",
                        [e \in {"artists", "albums", "tracks"} |-> EntityDefault])
            ELSE IF t = "CustomerOrders"
            THEN SetKey(TableDefault, "entities",
                        [e \in {"customers", "orders"} |-> EntityDefault])
            ELSE TableDefault],
     errors |-> <<>>,
     validation_results |-> <<>>]

\* initialize(): the default state with last_update set
initialize == [default_state EXCEPT !.last_update = Now]

update_state(st, updates) == [Update(st, updates) EXCEPT !.last_update = Now]

start_migration(st) ==
    update_state(st, [status |-> "in_progress", start_time |-> Now,
                      current_phase |-> JStr("initialization")])

complete_migration(st) ==
    update_state(st, [status |-> "completed", end_time |-> Now,
                      current_phase |-> JStr("completed")])

\* variant: the error is recorded but the status is left as it was
fail_migration_keeps_status(st, error_message) ==
    [st EXCEPT !.errors = Append(@, [timestamp |-> Now, message |-> error_message])]

\* variant: the new error replaces the errors recorded before
fail_migration_forgets_errors(st, error_message) ==
    Update([st EXCEPT !.errors = <<[timestamp |-> Now, message |-> error_message]>>],
           [status |-> "failed", end_time |-> Now])

fail_migration(st, error_message) ==
    Update([st EXCEPT !.errors = Append(@, [timestamp |-> Now, message |-> error_message])],
           [status |-> "failed", end_time |-> Now])

\* table_name.lower(), for the names start_table_migration is called with
Lower(table_name) ==
    IF table_name = "MusicCatalog" THEN "musiccatalog"
    ELSE IF table_name = "CustomerOrders" THEN "customerorders"
    ELSE IF table_name = "Playlists" THEN "playlists"
    ELSE IF table_name = "EmployeeManagement" THEN "employeemanagement"
    ELSE table_name

\* variant: starting a table clears its counter and its cursor
start_table_migration_restarts(st, table_name, total_records) ==
    [st EXCEPT !.tables[table_name] =
                    Update(@, [status |-> "in_progress", total_records |-> total_records,
                               records_migrated |-> 0, last_processed_id |-> None,
                               start_time |-> Now]),
               !.current_phase = JStr("migrating_" \o Lower(table_name))]

start_table_migration(st, table_name, total_records) ==
    [st EXCEPT !.tables[table_name] =
                    Update(@, [status |-> "in_progress", total_records |-> total_records,
                               start_time |-> Now]),
               !.current_phase = JStr("migrating_" \o Lower(table_name))]

complete_table_migration(st, table_name) ==
    [st EXCEPT !.tables[table_name] = Update(@, [status |-> "completed", end_time |-> Now])]

\* last_processed_id is None, JInt(n) or JStr(s); None leaves the cursor as it is
update_table_progress(st, table_name, records_migrated, last_processed_id) ==
    LET t1 == SetKey(st.tables[table_name], "records_migrated", records_migrated)
        t2 == IF last_processed_id # None
              THEN SetKey(t1, "last_processed_id", last_processed_id) ELSE t1
    IN  [st EXCEPT !.tables[table_name] = t2]

\* total and migrated are None or JInt(n); last_id is None, JInt(n) or JStr(s)
update_entity_progress(st, table_name, entity_type, total, migrated, last_id) ==
    IF table_name \in DOMAIN st.tables /\ "entities" \in DOMAIN st.tables[table_name]
    THEN LET ents == st.tables[table_name].entities
             e0 == IF entity_type \in DOMAIN ents THEN ents[entity_type] ELSE <<>>
             e1 == IF total # None THEN SetKey(e0, "total", total.v) ELSE e0
             e2 == IF migrated # None THEN SetKey(e1, "migrated", migrated.v) ELSE e1
             e3 == IF last_id # None THEN SetKey(e2, "last_id", last_id) ELSE e2
         IN  [st EXCEPT !.tables[table_name].entities = SetKey(ents, entity_type, e3)]
    ELSE st

\* {} for a name that is not a logical table
get_table_state(st, table_name) ==
    IF table_name \in DOMAIN st.tables THEN st.tables[table_name] ELSE <<>>

\* entity_type is "" when the caller passes none
get_last_processed_id(st, table_name, entity_type) ==
    LET table_state == get_table_state(st, table_name)
    IN  IF entity_type # "" /\ "entities" \in DOMAIN table_state
        THEN IF entity_type \in DOMAIN table_state.entities
                /\ "last_id" \in DOMAIN table_state.entities[entity_type]
             THEN table_state.entities[entity_type].last_id ELSE None
        ELSE IF "last_processed_id" \in DOMAIN table_state
             THEN table_state.last_processed_id ELSE None

\* variant: no table counts as completed
is_table_completed_never(st, table_name) == FALSE

is_table_completed(st, table_name) ==
    LET table_state == get_table_state(st, table_name)
    IN  "status" \in DOMAIN table_state /\ table_state.status = "completed"

\* variant: a failed run counts as resumable
can_resume_failed(st) == st.status \in {"in_progress", "failed"}

can_resume(st) == st.status = "in_progress"

\* variant: the error entry never names a table
add_error_without_table(st, error_message, table_name) ==
    [st EXCEPT !.errors = Append(@, [timestamp |-> Now, message |-> error_message])]

\* table_name is "" when the caller passes none
add_error(st, error_message, table_name) ==
    LET e0 == [timestamp |-> Now, message |-> error_message]
        error_entry == IF table_name # "" THEN SetKey(e0, "table", table_name) ELSE e0
    IN  [st EXCEPT !.errors = Append(@, error_entry)]

(***************************************************************************)
(* DynamoDB: a physical table is a set of items, at most one per (PK, SK). *)
(***************************************************************************)
target_tables ==
    [MusicCatalog |-> "chinook-music-catalog",
     CustomerOrders |-> "chinook-customer-orders",
     Playlists |-> "chinook-playlists",
     EmployeeManagement |-> "chinook-employee-management"]
PhysicalTables == {target_tables[t] : t \in TableNames}

\* variant: the partition key alone identifies an item
ItemKeyPartitionOnly(item) == <<item.PK.S, "">>

ItemKey(item) == <<item.PK.S, item.SK.S>>

\* PutRequest: the item replaces the stored item of the same key
PutItem(stored, item) == {x \in stored : ItemKey(x) # ItemKey(item)} \cup {item}

\* the items of the sequence at the indices in W, in order
RECURSIVE Pick(_, _)
Pick(items, W) ==
    IF W = {} THEN <<>>
    ELSE LET m == CHOOSE x \in W : \A y \in W : x <= y
         IN  <<items[m]>> \o Pick(items, W \ {m})

\* the table after the PutRequests of the items of the sequence at the indices in W, in
\* order: each replaces the stored item of its key, so the last item of a key stays
PutPicked(stored, items, W) ==
    {x \in stored : \A k \in W : ItemKey(x) # ItemKey(items[k])}
        \cup {items[k] : k \in {k \in W : \A j \in W :
                                            j > k => ItemKey(items[j]) # ItemKey(items[k])}}

KeysOf(physical, items) == {<<physical, ItemKey(items[n])>> : n \in 1..Len(items)}

(***************************************************************************)
(* MigrationEngine: queries, per-row transformation and progress updates.  *)
(***************************************************************************)
\* variant: the tracks of MusicCatalog are migrated first and the artists last
EntitiesOfTracksFirst(table_name) ==
    IF table_name = "MusicCatalog" THEN <<"tracks", "albums", "artists">>
    ELSE IF table_name = "CustomerOrders" THEN <<"customers">>
    ELSE IF table_name = "Playlists" THEN <<"playlists">>
    ELSE <<"employees">>

EntitiesOf(table_name) ==
    IF table_name = "MusicCatalog" THEN MusicEntities
    ELSE IF table_name = "CustomerOrders" THEN <<"customers">>
    ELSE IF table_name = "Playlists" THEN <<"playlists">>
    ELSE <<"employees">>

SourceIds(entity) ==
    IF entity = "artists" THEN ArtistIds
    ELSE IF entity = "albums" THEN AlbumIds
    ELSE IF entity = "tracks" THEN TrackIds
    ELSE IF entity = "customers" THEN CustomerIds
    ELSE IF entity = "playlists" THEN PlaylistIds
    ELSE EmployeeIds

\* SELECT COUNT(*) FROM <table>
get_table_count(table) ==
    IF table = "Artist" THEN NumArtists
    ELSE IF table = "Album" THEN NumAlbums
    ELSE IF table = "Track" THEN NumTracks
    ELSE IF table = "Customer" THEN NumCustomers
    ELSE IF table = "Invoice" THEN NumInvoices
    ELSE IF table = "Playlist" THEN NumPlaylists
    ELSE NumEmployees

get_music_catalog_counts ==
    [artists |-> get_table_count("Artist"), albums |-> get_table_count("Album"),
     tracks |-> get_table_count("Track")]

\* variant: the orders are left out of the total of CustomerOrders
TotalRecordsWithoutOrders(table_name) ==
    IF table_name = "MusicCatalog"
    THEN get_music_catalog_counts.artists + get_music_catalog_counts.albums
         + get_music_catalog_counts.tracks
    ELSE IF table_name = "CustomerOrders" THEN get_table_count("Customer")
    ELSE IF table_name = "Playlists" THEN get_table_count("Playlist")
    ELSE get_table_count("Employee")

\* total_records passed to start_table_migration by each table's routine
TotalRecords(table_name) ==
    IF table_name = "MusicCatalog"
    THEN get_music_catalog_counts.artists + get_music_catalog_counts.albums
         + get_music_catalog_counts.tracks
    ELSE IF table_name = "CustomerOrders"
    THEN get_table_count("Customer") + get_table_count("Invoice")
    ELSE IF table_name = "Playlists" THEN get_table_count("Playlist")
    ELSE get_table_count("Employee")

\* the ids a MusicCatalog entity query yields, ascending:
\* "WHERE id > {last_processed_id}" is added only when last_processed_id is truthy
\* variant: the filter starts one id too far
MusicQuerySkipsOne(entity, last_processed_id) ==
    SortedSeq({id \in SourceIds(entity) :
                 ~Truthy(last_processed_id) \/ id > ParseInt(Format(last_processed_id)) + 1})
MusicQuery(entity, last_processed_id) ==
    SortedSeq({id \in SourceIds(entity) :
                 ~Truthy(last_processed_id) \/ id > ParseInt(Format(last_processed_id))})

\* the keys by which the other tables' queries are grouped, ascending (no cursor filter)
FullQuery(entity) == SortedSeq(SourceIds(entity))

\* the items one loop iteration appends to batch_items
RowItems(entity, id) ==
    IF entity = "artists" THEN <<transform_artist(ArtistRow(id))>>
    ELSE IF entity = "albums" THEN <<transform_album(AlbumRow(id))>>
    ELSE IF entity = "tracks" THEN <<transform_track(TrackRow(id))>>
    ELSE IF entity = "customers"
    THEN <<transform_customer_profile(CustomerRow(id), OrdersOf(id))>>
         \o [n \in 1..Len(OrdersOf(id)) |-> transform_customer_order(id, OrdersOf(id)[n])]
    ELSE IF entity = "playlists" THEN <<transform_playlist(PlaylistData(id))>>
    ELSE <<transform_employee(EmployeeRow(id))>>

IdAttr(entity) ==
    IF entity = "artists" THEN "ArtistId" ELSE IF entity = "albums" THEN "AlbumId" ELSE "TrackId"

\* variant: the cursor saved is one past the row just fetched
PersistInLoopAhead(st, entity, processed, row_id) ==
    IF entity \in {"artists", "albums", "tracks"}
    THEN update_entity_progress(st, "MusicCatalog", entity, None, JInt(processed),
                                JInt(row_id + 1))
    ELSE IF entity = "customers"
    THEN update_table_progress(st, "CustomerOrders", processed, JInt(row_id + 1))
    ELSE IF entity = "playlists"
    THEN update_table_progress(st, "Playlists", processed, None)
    ELSE update_table_progress(st, "EmployeeManagement", processed, None)

\* the state saved after a flush inside the loop (row is the row just fetched)
PersistInLoop(st, entity, processed, row_id) ==
    IF entity \in {"artists", "albums", "tracks"}
    THEN update_entity_progress(st, "MusicCatalog", entity, None, JInt(processed), JInt(row_id))
    ELSE IF entity = "customers"
    THEN update_table_progress(st, "CustomerOrders", processed, JInt(row_id))
    ELSE IF entity = "playlists"
    THEN update_table_progress(st, "Playlists", processed, None)
    ELSE update_table_progress(st, "EmployeeManagement", processed, None)

\* the state saved after the flush of the remaining items
PersistRemaining(st, entity, processed, batch) ==
    IF entity \in {"artists", "albums", "tracks"}
    THEN update_entity_progress(st, "MusicCatalog", entity, None, JInt(processed),
                                JStr(batch[Len(batch)][IdAttr(entity)].N))
    ELSE IF entity = "customers"
    THEN update_table_progress(st, "CustomerOrders", processed, None)
    ELSE IF entity = "playlists"
    THEN update_table_progress(st, "Playlists", processed, None)
    ELSE update_table_progress(st, "EmployeeManagement", processed, None)

\* variant: --table is ignored
tables_to_migrate_all(specific) == TableOrder

tables_to_migrate(specific) == IF specific # "" THEN <<specific>> ELSE TableOrder

(***************************************************************************)
(* State of the system.                                                    *)
(***************************************************************************)
VARIABLES
    state,            \* the persisted state document (migration_state.json)
    target,           \* physical table name -> set of stored items
    acked,            \* history: <<physical table, key>> of every item of a batch
                      \* write that returned success
    cmd,              \* the command of the running process, or of the last one when idle
    pc,               \* the position of the running process
    force,            \* run_migration(force)
    specific_table,   \* run_migration(specific_table), "" for None
    tblIdx,           \* index of the table of the "for table_name in tables_to_migrate" loop
    entity,           \* the entity type whose routine is running
    last_ids,         \* resume points read by _migrate_music_catalog
    rows,             \* ids the open query has not yet yielded
    row,              \* id of the row fetched last, 0 before the first
    batch_items,      \* the in-memory batch
    processed_count,  \* the routine's processed_count
    flushes,          \* history: the batches the running entity routine has written
    exc,              \* message of the exception being propagated, "" when none
    exitCode,         \* exit code of the last process: -1 none yet or running, 137 killed
    w_caller,         \* who called batch_write_items: "none", "direct" or "engine"
    w_table,          \* batch_write_items: its table_name argument, "" when not called
    w_items,          \* batch_write_items: its items argument (items named 1..n by
                      \* their position in it)
    w_i,              \* batch_write_items: the i of "for i in range(0, len(items), 25)"
    w_request,        \* batch_write_items: the items of request_items
    w_retries,        \* batch_write_items: retries
    w_pc,             \* batch_write_items: "idle", "for", "while", "returned", "raised"
    w_sent,           \* history: the requests of the call and the store's responses
    file,             \* the state file as a file: missing, a state document, or malformed
    self_default_state, \* the default_state object of the MigrationState instance
    loaded,           \* history: what the last get_state call returned
    crashed,          \* history: the save during which the last process died
    s_last,           \* history: the last thing that happened to the store
    s_ops,            \* history: how many operations and file events there were
    config,           \* the configuration saved by init (migration_config.json)
    validation_results, \* what validate_migration returned to the validate command, when
                      \* that was the last command; a process starts without it
    transformed       \* history: source records handed to a transformer, with the items

vars == <<state, target, acked, cmd, pc, force, specific_table, tblIdx, entity, last_ids,
          rows, row, batch_items, processed_count, flushes, exc, exitCode,
          w_caller, w_table, w_items, w_i, w_request, w_retries, w_pc, w_sent,
          file, self_default_state, loaded, crashed, s_last, s_ops,
          config, validation_results, transformed>>

\* the configuration, the output of the validator and that of the transformers
cvars == <<config, validation_results, transformed>>

\* the variables of the state file and of the MigrationState instance that uses it
svars == <<file, self_default_state, loaded, crashed, s_last, s_ops>>

\* the variables of a batch_write_items call
wvars == <<w_caller, w_table, w_items, w_i, w_request, w_retries, w_pc, w_sent>>

locals == <<force, specific_table, tblIdx, entity, last_ids, rows, row, batch_items,
            processed_count, flushes, exc>>

NoIds == [e \in {"artists", "albums", "tracks"} |-> None]
KilledCode == 128 + 9
UnknownTable == "Bogus"

\* a state file holding a document; a file that is absent or is not a document
JsonFile(doc) == [kind |-> "json", doc |-> doc]
NoDocFile(kind) == [kind |-> kind, doc |-> default_state]
NoLoad == [kind |-> "none", doc |-> default_state, before |-> NoDocFile("missing")]
NoCrash == [kind |-> "none", old |-> default_state, new |-> default_state]
NoResults == <<>>

Init ==
    /\ state = initialize
    /\ target = [p \in PhysicalTables |-> {}]
    /\ acked = {}
    /\ cmd = "none"
    /\ pc = "idle"
    /\ force = FALSE
    /\ specific_table = ""
    /\ tblIdx = 0
    /\ entity = ""
    /\ last_ids = NoIds
    /\ rows = <<>>
    /\ row = 0
    /\ batch_items = <<>>
    /\ processed_count = 0
    /\ flushes = <<>>
    /\ exc = ""
    /\ exitCode = -1
    /\ w_caller = "none"
    /\ w_table = ""
    /\ w_items = <<>>
    /\ w_i = 0
    /\ w_request = <<>>
    /\ w_retries = 0
    /\ w_pc = "idle"
    /\ w_sent = <<>>
    /\ file = JsonFile(initialize)
    /\ self_default_state = default_state
    /\ loaded = NoLoad
    /\ crashed = NoCrash
    /\ s_last = "initialize"
    /\ s_ops = 0
    /\ config = [batch_size |-> BatchSize]
    /\ validation_results = NoResults
    /\ transformed = {}

\* batch_write_items is not running
WriterIdle ==
    /\ w_caller' = "none"
    /\ w_table' = ""
    /\ w_items' = <<>>
    /\ w_i' = 0
    /\ w_request' = <<>>
    /\ w_retries' = 0
    /\ w_pc' = "idle"
    /\ w_sent' = <<>>

\* the process ends: its local variables are gone, those of a running
\* batch_write_items call included
Exit(code) ==
    /\ WriterIdle
    /\ cmd' = cmd
    /\ pc' = "idle"
    /\ force' = FALSE
    /\ specific_table' = ""
    /\ tblIdx' = 0
    /\ entity' = ""
    /\ last_ids' = NoIds
    /\ rows' = <<>>
    /\ row' = 0
    /\ batch_items' = <<>>
    /\ processed_count' = 0
    /\ flushes' = <<>>
    /\ exc' = ""
    /\ exitCode' = code

CurTable == tables_to_migrate(specific_table)[tblIdx]
Physical == target_tables[CurTable]

(***************************************************************************)
(* Commands (migrate.py).                                                  *)
(***************************************************************************)
\* migrate [--source s] [--force] [--table t]: handle_migrate returns 1 when the source
\* database (the configured one, or that of --source) does not exist; else it builds the
\* engine and calls run_migration
MigrateCmd(source_exists, f, t) ==
    /\ pc = "idle"
    /\ cmd' = "migrate"
    /\ IF source_exists
       THEN /\ pc' = "run_start"
            /\ force' = f
            /\ specific_table' = t
            /\ exitCode' = -1
       ELSE /\ UNCHANGED <<pc, force, specific_table>>
            /\ exitCode' = 1
    /\ UNCHANGED <<state, target, acked, tblIdx, entity, last_ids, rows, row, batch_items,
                   processed_count, flushes, exc>>
    /\ UNCHANGED wvars
    /\ UNCHANGED svars
    /\ validation_results' = NoResults
    /\ UNCHANGED <<config, transformed>>

\* resume: the process starts
ResumeCmd ==
    /\ pc = "idle"
    /\ cmd' = "resume"
    /\ pc' = "resume_check"
    /\ exitCode' = -1
    /\ UNCHANGED <<state, target, acked, locals>>
    /\ UNCHANGED wvars
    /\ UNCHANGED svars
    /\ validation_results' = NoResults
    /\ UNCHANGED <<config, transformed>>

\* handle_resume: completed -> 0, not_started -> 1; resume_migration: not can_resume -> False
ResumeRefused ==
    /\ pc = "resume_check"
    /\ \/ state.status = "completed" /\ Exit(0)
       \/ state.status = "not_started" /\ Exit(1)
       \/ state.status \notin {"completed", "not_started"} /\ ~can_resume(state) /\ Exit(1)
    /\ UNCHANGED <<state, target, acked>>
    /\ UNCHANGED svars
    /\ UNCHANGED cvars

\* variant: every table counts as incomplete
incomplete_tables_all(st) == DOMAIN st.tables

incomplete_tables(st) == {t \in DOMAIN st.tables : st.tables[t].status \in {"not_started", "in_progress"}}

\* resume_migration with nothing left to do: complete_migration, return True
ResumeNothingLeft ==
    /\ pc = "resume_check"
    /\ state.status \notin {"completed", "not_started"}
    /\ can_resume(state)
    /\ incomplete_tables(state) = {}
    /\ state' = complete_migration(state)
    /\ pc' = "return_true"
    /\ UNCHANGED <<target, acked, cmd, locals, exitCode>>
    /\ UNCHANGED wvars
    /\ UNCHANGED svars
    /\ UNCHANGED cvars

\* resume_migration: run_migration(specific_table=None)
ResumeRun ==
    /\ pc = "resume_check"
    /\ state.status \notin {"completed", "not_started"}
    /\ can_resume(state)
    /\ incomplete_tables(state) # {}
    /\ pc' = "run_start"
    /\ force' = FALSE
    /\ specific_table' = ""
    /\ UNCHANGED <<state, target, acked, cmd, tblIdx, entity, last_ids, rows, row,
                   batch_items, processed_count, flushes, exc, exitCode>>
    /\ UNCHANGED wvars
    /\ UNCHANGED svars
    /\ UNCHANGED cvars

\* reset [--confirm|--force]: without a flag exit 1; else unlink the file and initialize
ResetCmd(confirmed) ==
    /\ pc = "idle"
    /\ cmd' = "reset"
    /\ IF confirmed
       THEN state' = initialize /\ exitCode' = 0
       ELSE state' = state /\ exitCode' = 1
    /\ UNCHANGED <<target, acked, pc, locals>>
    /\ UNCHANGED wvars
    /\ UNCHANGED svars
    /\ validation_results' = NoResults
    /\ UNCHANGED <<config, transformed>>

\* the process is killed between two steps, those of a batch_write_items call included:
\* the store keeps what it has taken and the state file is as last saved
Kill ==
    /\ pc # "idle"
    /\ Exit(KilledCode)
    /\ UNCHANGED <<state, target, acked>>
    /\ UNCHANGED svars
    /\ UNCHANGED cvars

(***************************************************************************)
(* run_migration and the per-table routines, one action per step.          *)
(***************************************************************************)
\* the position of _create_target_tables at the n-th table of config['target_tables'],
\* or past the last one
CreatePc(n) == "create_tables_" \o Str(n)
\* the position of create_table(force=True) for the n-th table after delete_table and
\* wait_for_table_deletion
RecreatePc(n) == "recreate_table_" \o Str(n)
CreatePcs == {CreatePc(n) : n \in 1..(Len(TableOrder) + 1)}
                 \cup {RecreatePc(n) : n \in 1..Len(TableOrder)}

\* run_migration: state_manager.start_migration()
RunStart ==
    /\ pc = "run_start"
    /\ state' = start_migration(state)
    /\ pc' = CreatePc(1)
    /\ UNCHANGED <<target, acked, cmd, locals, exitCode>>
    /\ UNCHANGED wvars
    /\ UNCHANGED svars
    /\ UNCHANGED cvars

\* create_table(force=True) on the n-th table: delete_table and wait_for_table_deletion
\* have returned, the table and its items are gone (a table that did not exist, which the
\* model does not tell from an empty one, is left as it was)
DeleteTable(n) ==
    /\ pc = CreatePc(n)
    /\ force
    /\ target' = [target EXCEPT ![target_tables[TableOrder[n]]] = {}]
    /\ pc' = RecreatePc(n)
    /\ UNCHANGED <<state, acked, cmd, locals, exitCode>>
    /\ UNCHANGED wvars
    /\ UNCHANGED svars
    /\ UNCHANGED cvars

\* _create_target_tables: create_table returns for the n-th table: the table exists or
\* is created; with force it is created again, empty, after the deletion, or it is left
\* with its items when delete_table was refused with ResourceInUseException, which
\* create_table answers with False as it does without force
CreateTable(n) ==
    /\ pc \in {CreatePc(n), RecreatePc(n)}
    /\ pc' = CreatePc(n + 1)
    /\ UNCHANGED <<state, target, acked, cmd, locals, exitCode>>
    /\ UNCHANGED wvars
    /\ UNCHANGED svars
    /\ UNCHANGED cvars

\* _create_target_tables returns True; the table loop starts
CreateTablesOk ==
    /\ pc = CreatePc(Len(TableOrder) + 1)
    /\ tblIdx' = 1
    /\ pc' = "table_loop"
    /\ UNCHANGED <<state, target, acked, cmd, force, specific_table, entity, last_ids, rows,
                   row, batch_items, processed_count, flushes, exc, exitCode>>
    /\ UNCHANGED wvars
    /\ UNCHANGED svars
    /\ UNCHANGED cvars

\* create_table raises for the n-th table (describe_table or delete_table refused, or,
\* after the deletion, the wait or the creation failed): _create_target_tables returns
\* False and so does run_migration
CreateTablesFail(n) ==
    /\ pc \in {CreatePc(n), RecreatePc(n)}
    /\ Exit(1)
    /\ UNCHANGED <<state, target, acked>>
    /\ UNCHANGED svars
    /\ UNCHANGED cvars

\* the loop is over: complete_migration; the report comes next
CompleteRun ==
    /\ pc = "table_loop"
    /\ tblIdx > Len(tables_to_migrate(specific_table))
    /\ state' = complete_migration(state)
    /\ pc' = "report"
    /\ UNCHANGED <<target, acked, cmd, locals, exitCode>>
    /\ UNCHANGED wvars
    /\ UNCHANGED svars
    /\ UNCHANGED cvars

\* _generate_migration_report wrote the report: return True
ReportOk ==
    /\ pc = "report"
    /\ Exit(0)
    /\ UNCHANGED <<state, target, acked>>
    /\ UNCHANGED svars
    /\ UNCHANGED cvars

\* str(e) of the error open() raises when the report cannot be written; the timestamp
\* in the name of the report is written ts, as in Now
ReportError == "[Errno 2] No such file or directory: 'reports/migration_report_ts.html'"

\* _generate_migration_report raises: "except Exception": fail_migration(...); the
\* report is tried again and its error leaves run_migration
ReportFail ==
    /\ pc = "report"
    /\ state' = fail_migration(state, "Migration failed: " \o ReportError)
    /\ pc' = "return_false"
    /\ UNCHANGED <<target, acked, cmd, locals, exitCode>>
    /\ UNCHANGED wvars
    /\ UNCHANGED svars
    /\ UNCHANGED cvars

\* the command handler got True, or the state it checked was completed: exit code 0
ReturnTrue ==
    /\ pc = "return_true"
    /\ Exit(0)
    /\ UNCHANGED <<state, target, acked>>
    /\ UNCHANGED svars
    /\ UNCHANGED cvars

\* the command handler got False or main caught the error: exit code 1
ReturnFalse ==
    /\ pc = "return_false"
    /\ Exit(1)
    /\ UNCHANGED <<state, target, acked>>
    /\ UNCHANGED svars
    /\ UNCHANGED cvars

\* "already completed, skipping"
SkipTable ==
    /\ pc = "table_loop"
    /\ tblIdx <= Len(tables_to_migrate(specific_table))
    /\ is_table_completed(state, CurTable)
    /\ tblIdx' = tblIdx + 1
    /\ UNCHANGED <<state, target, acked, cmd, pc, force, specific_table, entity, last_ids,
                   rows, row, batch_items, processed_count, flushes, exc, exitCode>>
    /\ UNCHANGED wvars
    /\ UNCHANGED svars
    /\ UNCHANGED cvars

\* the entity types in the order of counts.items()
CountedEntities == <<"artists", "albums", "tracks">>

\* _migrate_table -> the table's routine: counts, start_table_migration; then the entity
\* totals (MusicCatalog) or the first query
BeginTable ==
    /\ pc = "table_loop"
    /\ tblIdx <= Len(tables_to_migrate(specific_table))
    /\ ~is_table_completed(state, CurTable)
    /\ CurTable \in TableNames
    /\ state' = start_table_migration(state, CurTable, TotalRecords(CurTable))
    /\ entity' = IF CurTable = "MusicCatalog" THEN CountedEntities[1]
                 ELSE EntitiesOf(CurTable)[1]
    /\ pc' = IF CurTable = "MusicCatalog" THEN "entity_totals" ELSE "query"
    /\ UNCHANGED <<target, acked, cmd, force, specific_table, tblIdx, last_ids, rows, row,
                   batch_items, processed_count, flushes, exc, exitCode>>
    /\ UNCHANGED wvars
    /\ UNCHANGED svars
    /\ UNCHANGED cvars

\* _migrate_music_catalog: "for entity_type, count in counts.items()":
\* update_entity_progress(table_name, entity_type, total=count); after the last one the
\* resume points are read
SetEntityTotal ==
    /\ pc = "entity_totals"
    /\ state' = update_entity_progress(state, CurTable, entity,
                                       JInt(get_music_catalog_counts[entity]), None, None)
    /\ IF entity # CountedEntities[Len(CountedEntities)]
       THEN /\ entity' = CountedEntities[(CHOOSE n \in 1..Len(CountedEntities) :
                                              CountedEntities[n] = entity) + 1]
            /\ UNCHANGED <<pc, last_ids>>
       ELSE /\ entity' = EntitiesOf(CurTable)[1]
            /\ last_ids' = [e \in DOMAIN NoIds |-> get_last_processed_id(state', CurTable, e)]
            /\ pc' = "query"
    /\ UNCHANGED <<target, acked, cmd, force, specific_table, tblIdx, rows, row, batch_items,
                   processed_count, flushes, exc, exitCode>>
    /\ UNCHANGED wvars
    /\ UNCHANGED svars
    /\ UNCHANGED cvars

\* _migrate_table: raise Exception("Unknown table: ...")
BeginUnknownTable ==
    /\ pc = "table_loop"
    /\ tblIdx <= Len(tables_to_migrate(specific_table))
    /\ ~is_table_completed(state, CurTable)
    /\ CurTable \notin TableNames
    /\ exc' = "Unknown table: " \o CurTable
    /\ pc' = "table_except"
    /\ UNCHANGED <<state, target, acked, cmd, force, specific_table, tblIdx, entity, last_ids,
                   rows, row, batch_items, processed_count, flushes, exitCode>>
    /\ UNCHANGED wvars
    /\ UNCHANGED svars
    /\ UNCHANGED cvars

\* the entity routine executes its query
Query ==
    /\ pc = "query"
    /\ rows' = IF CurTable = "MusicCatalog" THEN MusicQuery(entity, last_ids[entity])
               ELSE FullQuery(entity)
    /\ row' = 0
    /\ batch_items' = <<>>
    /\ processed_count' = 0
    /\ flushes' = <<>>
    /\ pc' = "loop"
    /\ UNCHANGED <<state, target, acked, cmd, force, specific_table, tblIdx, entity, last_ids,
                   exc, exitCode>>
    /\ UNCHANGED wvars
    /\ UNCHANGED svars
    /\ UNCHANGED cvars

\* one iteration of "for row in cursor": transform, append, test the batch limit
FetchRow ==
    /\ pc = "loop"
    /\ rows # <<>>
    /\ row' = Head(rows)
    /\ rows' = Tail(rows)
    /\ batch_items' = batch_items \o RowItems(entity, Head(rows))
    /\ pc' = IF Len(batch_items') >= config.batch_size THEN "flush" ELSE "loop"
    /\ UNCHANGED <<state, target, acked, cmd, force, specific_table, tblIdx, entity, last_ids,
                   processed_count, flushes, exc, exitCode>>
    /\ UNCHANGED wvars
    /\ UNCHANGED svars
    /\ UNCHANGED cvars

\* the loop ends: "if batch_items:" decides whether remaining items are written
\* variant: the items left in the batch when the rows end are not written
EndLoopDropsRemainder ==
    /\ pc = "loop"
    /\ rows = <<>>
    /\ pc' = "entity_done"
    /\ UNCHANGED <<state, target, acked, cmd, force, specific_table, tblIdx, entity, last_ids,
                   rows, row, batch_items, processed_count, flushes, exc, exitCode>>
    /\ UNCHANGED wvars
    /\ UNCHANGED svars
    /\ UNCHANGED cvars

EndLoop ==
    /\ pc = "loop"
    /\ rows = <<>>
    /\ pc' = IF batch_items # <<>> THEN "flush_rest" ELSE "entity_done"
    /\ UNCHANGED <<state, target, acked, cmd, force, specific_table, tblIdx, entity, last_ids,
                   rows, row, batch_items, processed_count, flushes, exc, exitCode>>
    /\ UNCHANGED wvars
    /\ UNCHANGED svars
    /\ UNCHANGED cvars

\* error codes a ClientError of batch_write_item may carry
ThrottlingCodes == {"ProvisionedThroughputExceededException", "ThrottlingException"}
ErrorCodes == ThrottlingCodes \cup {"ValidationException"}

\* str(e) of what batch_write_item raised: a ClientError with its code, or another error
ErrorText(response, code) ==
    IF response = "client_error"
    THEN "An error occurred (" \o code \o ") when calling the BatchWriteItem operation: Unknown"
    ELSE "connection lost"

\* the messages of the exceptions batch_write_items raises
WriteFailed(response, code) == "Batch write failed: " \o ErrorText(response, code)
RetriesExceeded == "Max retries exceeded for batch write"
RetriesExceededBy(code) == RetriesExceeded \o ": " \o ErrorText("client_error", code)

\* after a flush inside the loop: count the batch, save progress and cursor, empty the batch
PersistFlush ==
    /\ pc = "persist"
    /\ processed_count' = processed_count + Len(batch_items)
    /\ state' = PersistInLoop(state, entity, processed_count', row)
    /\ batch_items' = <<>>
    /\ pc' = "loop"
    /\ UNCHANGED <<target, acked, cmd, force, specific_table, tblIdx, entity, last_ids, rows,
                   row, flushes, exc, exitCode>>
    /\ UNCHANGED wvars
    /\ UNCHANGED svars
    /\ UNCHANGED cvars

\* after the flush of the remaining items
PersistRest ==
    /\ pc = "persist_rest"
    /\ processed_count' = processed_count + Len(batch_items)
    /\ state' = PersistRemaining(state, entity, processed_count', batch_items)
    /\ pc' = "entity_done"
    /\ UNCHANGED <<target, acked, cmd, force, specific_table, tblIdx, entity, last_ids, rows,
                   row, batch_items, flushes, exc, exitCode>>
    /\ UNCHANGED wvars
    /\ UNCHANGED svars
    /\ UNCHANGED cvars

NextEntity(table_name, e) ==
    LET es == EntitiesOf(table_name)
        n == CHOOSE k \in 1..Len(es) : es[k] = e
    IN  IF n < Len(es) THEN es[n + 1] ELSE ""

\* the entity routine returned True and the table has another entity type
EntityDone ==
    /\ pc = "entity_done"
    /\ NextEntity(CurTable, entity) # ""
    /\ entity' = NextEntity(CurTable, entity)
    /\ flushes' = <<>>
    /\ pc' = "query"
    /\ UNCHANGED <<state, target, acked, cmd, force, specific_table, tblIdx, last_ids, rows,
                   row, batch_items, processed_count, exc, exitCode>>
    /\ UNCHANGED wvars
    /\ UNCHANGED svars
    /\ UNCHANGED cvars

\* what the table's routine saves before it returns True: only _migrate_music_catalog
\* calls complete_table_migration
FinishTable(st, table_name) ==
    IF table_name = "MusicCatalog" THEN complete_table_migration(st, table_name) ELSE st

\* the table's routine returns True; the loop goes to the next table
TableDone ==
    /\ pc = "entity_done"
    /\ NextEntity(CurTable, entity) = ""
    /\ state' = FinishTable(state, CurTable)
    /\ tblIdx' = tblIdx + 1
    /\ entity' = ""
    /\ rows' = <<>>
    /\ row' = 0
    /\ batch_items' = <<>>
    /\ processed_count' = 0
    /\ flushes' = <<>>
    /\ last_ids' = NoIds
    /\ pc' = "table_loop"
    /\ UNCHANGED <<target, acked, cmd, force, specific_table, exc, exitCode>>
    /\ UNCHANGED wvars
    /\ UNCHANGED svars
    /\ UNCHANGED cvars

\* _migrate_table: except -> add_error(...), return False
TableExcept ==
    /\ pc = "table_except"
    /\ state' = add_error(state, "Error migrating " \o CurTable \o ": " \o exc, CurTable)
    /\ pc' = "run_fail"
    /\ UNCHANGED <<target, acked, cmd, locals, exitCode>>
    /\ UNCHANGED wvars
    /\ UNCHANGED svars
    /\ UNCHANGED cvars

\* run_migration: "if not success": fail_migration(...), return False
RunFail ==
    /\ pc = "run_fail"
    /\ state' = fail_migration(state, "Failed to migrate " \o CurTable)
    /\ pc' = "return_false"
    /\ UNCHANGED <<target, acked, cmd, locals, exitCode>>
    /\ UNCHANGED wvars
    /\ UNCHANGED svars
    /\ UNCHANGED cvars

\* the errors list grows with every failure and nothing in the program bounds it: a
\* specification lets a failure that records n more errors start while the list keeps
\* within max entries
ErrorsWithin(n, max) == Len(state.errors) + n <= max

(***************************************************************************)
(* DynamoDBManager.batch_write_items: chunks, requests and retries.        *)
(***************************************************************************)
\* the local batch_size of batch_write_items (not the configured batch size)
batch_size == 25
\* the default of the max_retries parameter, which no caller overrides
max_retries == 3

\* the subsets of a request the store is made to report as unprocessed are all of
\* them up to this request length, and a fixed few for longer requests
MaxEnumerated == 3

Range(s) == {s[n] : n \in 1..Len(s)}

\* variant: every error code is taken for a throttling one
IsThrottlingAny(error_code) == error_code \in ErrorCodes
\* "if error_code in ['ProvisionedThroughputExceededException', 'ThrottlingException']"
IsThrottling(error_code) == error_code \in ThrottlingCodes

\* variant: one attempt more than max_retries
MayRetryOnceMore(retries) == retries < max_retries + 1
\* "while retries < max_retries", "if retries < max_retries"
MayRetry(retries) == retries < max_retries

\* variant: reported unprocessed items are not looked at
HasUnprocessedNever(unprocessed_items) == FALSE
\* "if unprocessed_items:"
HasUnprocessed(unprocessed_items) == unprocessed_items # <<>>

\* variant: the whole request is sent again
RetryWholeRequest(request_items, unprocessed_items) == request_items
\* "request_items = unprocessed_items"
RetryRequest(request_items, unprocessed_items) == unprocessed_items

\* variant: the slice is one item longer
ChunkOneMore(items, i) ==
    SubSeq(items, i + 1,
           IF i + batch_size + 1 < Len(items) THEN i + batch_size + 1 ELSE Len(items))
\* "batch = items[i:i + batch_size]"
Chunk(items, i) ==
    SubSeq(items, i + 1, IF i + batch_size < Len(items) THEN i + batch_size ELSE Len(items))

\* what the store may report as unprocessed for a request: nothing, or some of its items
UnprocessedChoices(request) ==
    IF Len(request) <= MaxEnumerated
    THEN {Pick(request, W) : W \in SUBSET (1..Len(request))}
    ELSE {<<>>, request, <<request[1]>>, <<request[Len(request)]>>, Tail(request)}

\* the lengths of the items argument of a direct call
InputLens == {0, 1, BatchSize + 1, batch_size + 1}

\* the record of one batch_write_item call in w_sent
\* time.sleep(2 ** retries), in seconds
Backoff(retries) == 2 ^ retries

\* slept is the time batch_write_items sleeps after the call (0: it does not sleep)
Sent(response, code, unprocessed, stored, slept) ==
    [chunk |-> w_i, request |-> w_request, response |-> response, code |-> code,
     unprocessed |-> unprocessed, stored |-> stored, slept |-> slept]

\* after the while loop: "if retries >= max_retries: raise", else the next chunk
AfterWhile(retries) == IF retries >= max_retries THEN "raised" ELSE "for"

\* the items argument of a direct call with n items
DirectItems(n) == [k \in 1..n |-> [PK |-> [S |-> "ITEM#" \o Str(k)], SK |-> [S |-> "METADATA"]]]
\* the table a direct call writes to
DirectTables == {target_tables["MusicCatalog"]}

\* the items argument of the running call
CallItems == IF w_caller = "engine" THEN batch_items ELSE DirectItems(Len(w_items))

\* batch_write_items(table_name, items) with n items, as an engine flush calls it when
\* the configured batch size or a customer's orders make the batch that long
DirectCall(table_name, n) ==
    /\ cmd = "none"
    /\ pc = "idle"
    /\ w_caller = "none"
    /\ w_caller' = "direct"
    /\ w_table' = table_name
    /\ w_items' = [k \in 1..n |-> k]
    /\ w_i' = 0
    /\ w_request' = <<>>
    /\ w_retries' = 0
    /\ w_pc' = IF n = 0 THEN "returned" ELSE "for"
    /\ w_sent' = <<>>
    /\ UNCHANGED <<state, target, acked, cmd, pc, locals, exitCode>>
    /\ UNCHANGED svars
    /\ UNCHANGED cvars

\* the item and the tables the direct calls of put_item are drawn from
PutItems == {[PK |-> [S |-> "ARTIST#9"], SK |-> [S |-> "METADATA"], Name |-> [S |-> "x"]]}
PutTables == {target_tables["MusicCatalog"], target_tables["Playlists"]}

\* DynamoDBManager.put_item(table_name, item) called while no command runs and
\* batch_write_items is not being called directly: the store takes the item (a call the
\* store refuses raises and changes nothing)
PutItemCall(table_name, item) ==
    /\ pc = "idle"
    /\ w_caller = "none"
    /\ target' = [target EXCEPT ![table_name] = PutItem(@, item)]
    /\ UNCHANGED <<state, acked, cmd, pc, locals, exitCode>>
    /\ UNCHANGED wvars
    /\ UNCHANGED svars
    /\ UNCHANGED cvars

\* DynamoDBManager.delete_table(table_name), or create_table(table_name, schema,
\* force=True), called while no command runs and batch_write_items is not being called
\* directly: the table's items are gone (a call the store refuses changes nothing)
DeleteTableCall(table_name) ==
    /\ pc = "idle"
    /\ w_caller = "none"
    /\ target' = [target EXCEPT ![table_name] = {}]
    /\ UNCHANGED <<state, acked, cmd, pc, locals, exitCode>>
    /\ UNCHANGED wvars
    /\ UNCHANGED svars
    /\ UNCHANGED cvars

\* migrate on the fresh state, when batch_write_items is not being called directly
MigrateAlone(source_exists) ==
    /\ w_caller = "none"
    /\ MigrateCmd(source_exists, FALSE, "")
    /\ cmd = "none"

\* the entity routine calls batch_write_items(table, batch_items)
EngineCall ==
    /\ pc \in {"flush", "flush_rest"}
    /\ w_pc = "idle"
    /\ w_caller' = "engine"
    /\ w_table' = Physical
    /\ w_items' = [k \in 1..Len(batch_items) |-> k]
    /\ w_i' = 0
    /\ w_request' = <<>>
    /\ w_retries' = 0
    /\ w_pc' = IF batch_items = <<>> THEN "returned" ELSE "for"
    /\ w_sent' = <<>>
    /\ UNCHANGED <<state, target, acked, cmd, pc, locals, exitCode>>
    /\ UNCHANGED svars
    /\ UNCHANGED cvars

\* "for i in range(0, len(items), batch_size)": build the request of the next chunk
ForChunk ==
    /\ w_pc = "for"
    /\ w_i < Len(w_items)
    /\ w_request' = Chunk(w_items, w_i)
    /\ w_retries' = 0
    /\ w_pc' = "while"
    /\ UNCHANGED <<state, target, acked, cmd, pc, locals, exitCode,
                   w_caller, w_table, w_items, w_i, w_sent>>
    /\ UNCHANGED svars
    /\ UNCHANGED cvars

\* the for loop is over: return True
ForEnd ==
    /\ w_pc = "for"
    /\ w_i >= Len(w_items)
    /\ w_pc' = "returned"
    /\ UNCHANGED <<state, target, acked, cmd, pc, locals, exitCode,
                   w_caller, w_table, w_items, w_i, w_request, w_retries, w_sent>>
    /\ UNCHANGED svars
    /\ UNCHANGED cvars

\* batch_write_item answers with UnprocessedItems = unprocessed_items: the store has put
\* the other items of the request into the table
Responded(unprocessed_items) ==
    /\ w_pc = "while"
    /\ MayRetry(w_retries)
    /\ Range(unprocessed_items) \subseteq Range(w_request)
    /\ target' = [target EXCEPT ![w_table] =
                      PutPicked(@, CallItems, Range(w_request) \ Range(unprocessed_items))]
    /\ w_sent' = Append(w_sent,
                        Sent("answer", "", unprocessed_items,
                             Range(w_request) \ Range(unprocessed_items),
                             IF HasUnprocessed(unprocessed_items)
                             THEN Backoff(w_retries + 1) ELSE 0))
    /\ IF HasUnprocessed(unprocessed_items)
       THEN /\ w_request' = RetryRequest(w_request, unprocessed_items)
            /\ w_retries' = w_retries + 1
            /\ w_pc' = IF MayRetry(w_retries') THEN "while" ELSE AfterWhile(w_retries')
            /\ w_i' = IF w_pc' = "for" THEN w_i + batch_size ELSE w_i
       ELSE /\ w_pc' = AfterWhile(w_retries)
            /\ w_i' = IF w_pc' = "for" THEN w_i + batch_size ELSE w_i
            /\ UNCHANGED <<w_request, w_retries>>
    /\ UNCHANGED <<state, acked, cmd, pc, locals, exitCode, w_caller, w_table, w_items>>
    /\ UNCHANGED svars
    /\ UNCHANGED cvars

\* batch_write_item raises a ClientError: nothing of the request is stored
ClientErrorRaised(error_code) ==
    /\ w_pc = "while"
    /\ MayRetry(w_retries)
    /\ w_sent' = Append(w_sent,
                        Sent("client_error", error_code, <<>>, {},
                             IF IsThrottling(error_code) /\ MayRetry(w_retries + 1)
                             THEN Backoff(w_retries + 1) ELSE 0))
    /\ IF IsThrottling(error_code)
       THEN /\ w_retries' = w_retries + 1
            /\ w_pc' = IF MayRetry(w_retries') THEN "while" ELSE "raised"
       ELSE /\ w_pc' = "raised"
            /\ UNCHANGED w_retries
    /\ UNCHANGED <<state, target, acked, cmd, pc, locals, exitCode,
                   w_caller, w_table, w_items, w_i, w_request>>
    /\ UNCHANGED svars
    /\ UNCHANGED cvars

\* batch_write_item raises another exception: the connection is lost before the store
\* took the request, or after it put every item of it into the table
OtherExceptionRaised(taken) ==
    /\ w_pc = "while"
    /\ MayRetry(w_retries)
    /\ target' = [target EXCEPT ![w_table] =
                      PutPicked(@, CallItems, IF taken THEN Range(w_request) ELSE {})]
    /\ w_sent' = Append(w_sent, Sent("exception", "", <<>>,
                                     IF taken THEN Range(w_request) ELSE {}, 0))
    /\ w_pc' = "raised"
    /\ UNCHANGED <<state, acked, cmd, pc, locals, exitCode,
                   w_caller, w_table, w_items, w_i, w_request, w_retries>>
    /\ UNCHANGED svars
    /\ UNCHANGED cvars

\* batch_write_items returned True to the entity routine
EngineReturn ==
    /\ w_pc = "returned"
    /\ w_caller = "engine"
    /\ acked' = acked \cup KeysOf(Physical, batch_items)
    /\ flushes' = Append(flushes, batch_items)
    /\ pc' = IF pc = "flush" THEN "persist" ELSE "persist_rest"
    /\ WriterIdle
    /\ UNCHANGED <<state, target, cmd, force, specific_table, tblIdx, entity, last_ids, rows,
                   row, batch_items, processed_count, exc, exitCode>>
    /\ UNCHANGED svars
    /\ UNCHANGED cvars

\* the message of the exception batch_write_items raised
RaisedMessage(sent) ==
    LET last == sent[Len(sent)]
    IN  IF last.response = "exception"
           \/ (last.response = "client_error" /\ ~IsThrottling(last.code))
        THEN WriteFailed(last.response, last.code)
        ELSE IF last.response = "client_error" THEN RetriesExceededBy(last.code)
        ELSE RetriesExceeded

\* variant: the failed write is taken for a success
EngineRaiseIgnored ==
    /\ w_pc = "raised"
    /\ w_caller = "engine"
    /\ pc \in {"flush", "flush_rest"}
    /\ pc' = IF pc = "flush" THEN "persist" ELSE "persist_rest"
    /\ WriterIdle
    /\ UNCHANGED <<state, target, acked, cmd, force, specific_table, tblIdx, entity, last_ids,
                   rows, row, batch_items, processed_count, flushes, exc, exitCode>>
    /\ UNCHANGED svars
    /\ UNCHANGED cvars

\* batch_write_items raised: the exception leaves it and the entity routine; the record
\* of the call's requests is kept until the process ends
EngineRaise ==
    /\ w_pc = "raised"
    /\ w_caller = "engine"
    /\ pc \in {"flush", "flush_rest"}
    /\ exc' = RaisedMessage(w_sent)
    /\ pc' = "table_except"
    /\ UNCHANGED <<state, target, acked, cmd, force, specific_table, tblIdx, entity, last_ids,
                   rows, row, batch_items, processed_count, flushes, exitCode>>
    /\ UNCHANGED wvars
    /\ UNCHANGED svars
    /\ UNCHANGED cvars

\* what the wider specifications make the store report as unprocessed when it does not
\* take a request whole: the first item of a request that is sent for the first time
FewUnprocessed(request, retries) ==
    IF request = <<>> \/ retries > 0 THEN {} ELSE {<<request[1]>>}

\* the steps of one batch_write_items call, whatever the store answers
WriteStep ==
    \/ ForChunk
    \/ ForEnd
    \/ \E unprocessed_items \in UnprocessedChoices(w_request) : Responded(unprocessed_items)
    \/ \E error_code \in ErrorCodes : ClientErrorRaised(error_code)
    \/ \E taken \in BOOLEAN : OtherExceptionRaised(taken)

\* the steps of a running process that end with a save of the state file
SavingStep ==
    \/ ResumeNothingLeft
    \/ RunStart
    \/ CompleteRun
    \/ ReportFail
    \/ BeginTable
    \/ SetEntityTotal
    \/ PersistFlush
    \/ PersistRest
    \/ TableDone /\ state' # state
    \/ TableExcept
    \/ RunFail

\* the process is killed inside the _save_state of its next step, after
\* open(self.state_file, 'w') emptied the file and before json.dump wrote the document:
\* get_state finds no document in the file and returns the default state
KillInSave ==
    /\ pc # "idle"
    /\ ENABLED SavingStep
    /\ state' = default_state
    /\ Exit(KilledCode)
    /\ UNCHANGED <<target, acked>>
    /\ UNCHANGED svars
    /\ UNCHANGED cvars

\* the steps of run_migration on the four logical tables while the store takes every
\* request whole; whether the creation of a target table or the writing of the report
\* can fail is left to the specification
QuietStep ==
    \/ RunStart
    \/ \E n \in 1..Len(TableOrder) : CreateTable(n)
    \/ CreateTablesOk
    \/ CompleteRun
    \/ ReportOk
    \/ SkipTable
    \/ BeginTable
    \/ SetEntityTotal
    \/ Query
    \/ FetchRow
    \/ EndLoop
    \/ EngineCall
    \/ ForChunk
    \/ ForEnd
    \/ Responded(<<>>)
    \/ EngineReturn
    \/ PersistFlush
    \/ PersistRest
    \/ EntityDone
    \/ TableDone

\* the steps of a store that leaves an item unprocessed or loses the connection, the
\* latter while the errors list keeps within max entries, and of the run that fails
FailingStepWithin(max) ==
    \/ \E unprocessed_items \in FewUnprocessed(w_request, w_retries) :
          Responded(unprocessed_items)
    \/ \E taken \in BOOLEAN : ErrorsWithin(2, max) /\ OtherExceptionRaised(taken)
    \/ EngineRaise
    \/ TableExcept
    \/ RunFail
    \/ ReturnFalse

RunStepWithin(max) == QuietStep \/ FailingStepWithin(max)

RunStep == RunStepWithin(MaxErrors)

\* the steps of handle_resume and resume_migration before the run. The commands alone
\* never leave every table completed (three of the four table routines never mark their
\* table completed), so the specifications made of commands only take ResumeRefused and
\* ResumeRun from it
ResumeStep ==
    \/ ResumeRefused
    \/ ResumeNothingLeft
    \/ ReturnTrue
    \/ ResumeRun

\* migrate and resume without options, interrupted anywhere; a batch write fails while
\* the errors list has room for the two errors of the failure and for that of a report
Next ==
    \/ \E source_exists \in BOOLEAN : MigrateCmd(source_exists, FALSE, "")
    \/ ResumeCmd
    \/ ResumeRefused
    \/ ResumeRun
    \/ Kill
    \/ KillInSave
    \/ ErrorsWithin(1, MaxErrors) /\ ReportFail
    \/ \E n \in 1..Len(TableOrder) : CreateTablesFail(n)
    \/ RunStepWithin(MaxErrors - 1)

Spec == Init /\ [][Next]_vars

\* the values of --table the wider specification draws from
SpecificTables == {"", "Playlists", UnknownTable}

\* sequences of commands that each run to their end: migrate with --force and --table,
\* resume and reset
NextCli ==
    \/ \E source_exists, f \in BOOLEAN, t \in SpecificTables : MigrateCmd(source_exists, f, t)
    \/ \E c \in BOOLEAN : ResetCmd(c)
    \/ ErrorsWithin(2, MaxErrors) /\ BeginUnknownTable
    \/ ResumeCmd
    \/ ResumeRefused
    \/ ResumeRun
    \/ \E n \in 1..Len(TableOrder) : DeleteTable(n)
    \/ \E n \in 1..Len(TableOrder) : CreateTablesFail(n)
    \/ RunStep

SpecCli == Init /\ [][NextCli]_vars

\* the first command after init is migrate without options
FirstMigrate(source_exists) ==
    /\ cmd = "none"
    /\ MigrateCmd(source_exists, FALSE, "")

\* one migrate process on the freshly initialized state: it runs until it ends, fails or
\* is killed, and no other process follows
NextFresh ==
    \/ \E source_exists \in BOOLEAN : FirstMigrate(source_exists)
    \/ RunStart
    \/ \E n \in 1..Len(TableOrder) : CreateTable(n)
    \/ CreateTablesOk
    \/ \E n \in 1..Len(TableOrder) : CreateTablesFail(n)
    \/ CompleteRun
    \/ ReportOk
    \/ ErrorsWithin(1, MaxErrors) /\ ReportFail
    \/ BeginTable
    \/ SetEntityTotal
    \/ Query
    \/ FetchRow
    \/ EndLoop
    \/ EngineCall
    \/ WriteStep
    \/ EngineReturn
    \/ ErrorsWithin(2, MaxErrors) /\ EngineRaise
    \/ PersistFlush
    \/ PersistRest
    \/ EntityDone
    \/ TableDone
    \/ TableExcept
    \/ RunFail
    \/ ReturnFalse
    \/ Kill
    \/ KillInSave

SpecFresh == Init /\ [][NextFresh]_vars

\* one call of batch_write_items on its own, or one migrate run whose flushes go through it
NextWrite ==
    \/ \E table_name \in DirectTables, n \in InputLens : DirectCall(table_name, n)
    \/ \E table_name \in PutTables, item \in PutItems : PutItemCall(table_name, item)
    \/ \E table_name \in PutTables : DeleteTableCall(table_name)
    \/ \E source_exists \in BOOLEAN : MigrateAlone(source_exists)
    \/ RunStart
    \/ \E n \in 1..Len(TableOrder) : CreateTable(n)
    \/ CreateTablesOk
    \/ \E n \in 1..Len(TableOrder) : CreateTablesFail(n)
    \/ CompleteRun
    \/ ReportOk
    \/ ErrorsWithin(1, MaxErrors) /\ ReportFail
    \/ BeginTable
    \/ SetEntityTotal
    \/ Query
    \/ FetchRow
    \/ EndLoop
    \/ EngineCall
    \/ WriteStep
    \/ EngineReturn
    \/ ErrorsWithin(2, MaxErrors) /\ EngineRaise
    \/ PersistFlush
    \/ PersistRest
    \/ EntityDone
    \/ TableDone
    \/ TableExcept
    \/ RunFail
    \/ ReturnFalse

SpecWrite == Init /\ [][NextWrite]_vars

\* batch_write_items keeps running: the calling thread is scheduled and every
\* batch_write_item call comes back with an answer or an exception
SpecWriteFair == SpecWrite /\ WF_vars(WriteStep)

(***************************************************************************)
(* The other commands of migrate.py: init, status, validate.               *)
(***************************************************************************)
\* the values of --batch-size the commands specification draws from
BatchSizes == {1, BatchSize, batch_size}

\* variant: the validator counts the customers of CustomerOrders and not their invoices
get_source_count_without_orders(logical_name) ==
    IF logical_name = "MusicCatalog"
    THEN get_music_catalog_counts.artists + get_music_catalog_counts.albums
         + get_music_catalog_counts.tracks
    ELSE IF logical_name = "CustomerOrders" THEN get_table_count("Customer")
    ELSE IF logical_name = "Playlists" THEN get_table_count("Playlist")
    ELSE IF logical_name = "EmployeeManagement" THEN get_table_count("Employee")
    ELSE 0

\* _get_source_count_for_table
get_source_count_for_table(logical_name) ==
    IF logical_name = "MusicCatalog"
    THEN get_music_catalog_counts.artists + get_music_catalog_counts.albums
         + get_music_catalog_counts.tracks
    ELSE IF logical_name = "CustomerOrders"
    THEN get_table_count("Customer") + get_table_count("Invoice")
    ELSE IF logical_name = "Playlists" THEN get_table_count("Playlist")
    ELSE IF logical_name = "EmployeeManagement" THEN get_table_count("Employee")
    ELSE 0

\* get_table_item_count: the ItemCount of describe_table, taken to be the number of items
\* the table holds at the time of the call
get_table_item_count(tgt, table_name) == Cardinality(tgt[table_name])

\* validate_migration: per logical table the source count, the target count and whether
\* they are equal
validate_migration(tgt) ==
    [logical_name \in TableNames |->
        LET source_count == get_source_count_for_table(logical_name)
            target_count == get_table_item_count(tgt, target_tables[logical_name])
        IN  [source_count |-> source_count, target_count |-> target_count,
             count_match |-> (source_count = target_count)]]

\* init --source s --batch-size b: a missing source file exits 1; else save_config and
\* state_manager.initialize(), whatever the state file held
InitCmd(source_exists, b) ==
    /\ pc = "idle"
    /\ cmd' = "init"
    /\ IF source_exists
       THEN /\ config' = [config EXCEPT !.batch_size = b]
            /\ state' = initialize
            /\ exitCode' = 0
       ELSE /\ UNCHANGED <<config, state>>
            /\ exitCode' = 1
    /\ validation_results' = NoResults
    /\ UNCHANGED <<target, acked, pc, locals, transformed>>
    /\ UNCHANGED wvars
    /\ UNCHANGED svars

\* variant: status creates the state file when there is none
StatusCmdInitializes ==
    /\ pc = "idle"
    /\ cmd' = "status"
    /\ exitCode' = 0
    /\ state' = IF state = default_state THEN initialize ELSE state
    /\ UNCHANGED <<target, acked, pc, locals>>
    /\ UNCHANGED wvars
    /\ UNCHANGED svars
    /\ validation_results' = NoResults
    /\ UNCHANGED <<config, transformed>>

\* status: get_state() and print
StatusCmd ==
    /\ pc = "idle"
    /\ cmd' = "status"
    /\ exitCode' = 0
    /\ UNCHANGED <<state, target, acked, pc, locals>>
    /\ UNCHANGED wvars
    /\ UNCHANGED svars
    /\ validation_results' = NoResults
    /\ UNCHANGED <<config, transformed>>

\* validate: load the configuration, build the engine, validate_migration(), print; when
\* validate_migration raises (describe_table refused, connection lost, source unreadable)
\* main prints the error and returns 1
ValidateCmd(raised) ==
    /\ pc = "idle"
    /\ cmd' = "validate"
    /\ IF raised
       THEN validation_results' = NoResults /\ exitCode' = 1
       ELSE validation_results' = validate_migration(target) /\ exitCode' = 0
    /\ UNCHANGED <<state, target, acked, pc, locals, config, transformed>>
    /\ UNCHANGED wvars
    /\ UNCHANGED svars

\* ConfigManager.update_config({'batch_size': b}) called while no command runs
UpdateConfig(b) ==
    /\ pc = "idle"
    /\ config' = [config EXCEPT !.batch_size = b]
    /\ UNCHANGED <<state, target, acked, cmd, pc, locals, exitCode, validation_results,
                   transformed>>
    /\ UNCHANGED wvars
    /\ UNCHANGED svars

\* the state file is removed while no process runs: every later get_state() returns the
\* default state, which is then the persisted document of the model
StateFileRemoved ==
    /\ pc = "idle"
    /\ state # default_state
    /\ state' = default_state
    /\ UNCHANGED <<target, acked, cmd, pc, locals, exitCode>>
    /\ UNCHANGED wvars
    /\ UNCHANGED svars
    /\ UNCHANGED cvars

\* the batch size update_config is called with among the commands
ConfigUpdates == {batch_size}

\* every command of the tool, in any order, each process running to its end; a migrate
\* that failed is followed by one that fails again
NextCommands ==
    \/ \E source_exists \in BOOLEAN : InitCmd(source_exists, BatchSize)
    \/ \E source_exists \in BOOLEAN : MigrateCmd(source_exists, FALSE, "")
    \/ ResumeCmd
    \/ ResumeRefused
    \/ ResumeRun
    \/ \E c \in BOOLEAN : ResetCmd(c)
    \/ StatusCmd
    \/ \E raised \in BOOLEAN : ValidateCmd(raised)
    \/ \E b \in ConfigUpdates : UpdateConfig(b)
    \/ StateFileRemoved
    \/ \E n \in 1..Len(TableOrder) : CreateTablesFail(n)
    \/ ErrorsWithin(1, MaxErrors + 1) /\ ReportFail
    \/ RunStepWithin(MaxErrors + 1)

SpecCommands == Init /\ [][NextCommands]_vars

\* the first command is init with some batch size
FirstInit(b) ==
    /\ cmd = "none"
    /\ InitCmd(TRUE, b)

\* migrate and validate once init has configured the batch size
MigrateAfterInit(source_exists) ==
    /\ cmd # "none"
    /\ MigrateCmd(source_exists, FALSE, "")

ValidateAfterInit(raised) ==
    /\ cmd # "none"
    /\ ValidateCmd(raised)

\* init with a batch size, then migrate until it has completed, and validate at any time
NextBatch ==
    \/ \E b \in BatchSizes : FirstInit(b)
    \/ \E source_exists \in BOOLEAN : MigrateAfterInit(source_exists)
    \/ \E raised \in BOOLEAN : ValidateAfterInit(raised)
    \/ \E b \in BatchSizes : cmd # "none" /\ UpdateConfig(b)
    \/ \E n \in 1..Len(TableOrder) : CreateTablesFail(n)
    \/ RunStep

SpecBatch == Init /\ [][NextBatch]_vars

(***************************************************************************)
(* The transformers called on their own, on source records drawn freely.   *)
(***************************************************************************)
MaxId == 2
MaxTransformed == 2

\* the primary keys and the invoice dates the records are drawn with
RecordIds == 1..MaxId
InvoiceDates == {InvoiceDate(1), InvoiceDate(2)}

\* the numbers of children of a parent: the embedding limit and one more
ChildCounts(limit) == {limit, limit + 1}

\* a transformer was called on the record id of an entity type, built from args, with so
\* many children
Transformed(table, entity_type, id, args, children, item) ==
    /\ transformed' = transformed \cup
                        {[table |-> table, entity |-> entity_type, id |-> id, args |-> args,
                          children |-> children, item |-> item]}
    /\ UNCHANGED <<state, target, acked, cmd, pc, locals, exitCode, config,
                   validation_results>>
    /\ UNCHANGED wvars
    /\ UNCHANGED svars

TransformArtist(a) ==
    /\ pc = "idle"
    /\ cmd = "none"
    /\ Cardinality(transformed) < MaxTransformed
    /\ Transformed("MusicCatalog", "artist", a, <<a>>, 0,
                transform_artist([ArtistRow(1) EXCEPT !.ArtistId = a]))

TransformAlbum(al, a) ==
    /\ pc = "idle"
    /\ cmd = "none"
    /\ Cardinality(transformed) < MaxTransformed
    /\ Transformed("MusicCatalog", "album", al, <<al, a>>, 0,
                transform_album([AlbumRow(1) EXCEPT !.AlbumId = al, !.ArtistId = a]))

TransformTrack(t, al) ==
    /\ pc = "idle"
    /\ cmd = "none"
    /\ Cardinality(transformed) < MaxTransformed
    /\ Transformed("MusicCatalog", "track", t, <<t, al>>, 0,
                transform_track([TrackRow(1) EXCEPT !.TrackId = t, !.AlbumId = al]))

TransformCustomerProfile(c) ==
    /\ pc = "idle"
    /\ cmd = "none"
    /\ Cardinality(transformed) < MaxTransformed
    /\ Transformed("CustomerOrders", "customer", c, <<c>>, 0,
                transform_customer_profile([CustomerRow(1) EXCEPT !.CustomerId = c],
                                           OrdersOf(1)))

TransformCustomerOrder(c, i, d, k) ==
    /\ pc = "idle"
    /\ cmd = "none"
    /\ Cardinality(transformed) < MaxTransformed
    /\ Transformed("CustomerOrders", "order", i, <<c, i, d, k>>, k,
                transform_customer_order(c,
                    [invoice_data |-> [InvoiceRow(1) EXCEPT !.InvoiceId = i,
                                                            !.InvoiceDate = d],
                     line_items |-> [n \in 1..k |-> LineItemRow(n)]]))

TransformPlaylist(p, k) ==
    /\ pc = "idle"
    /\ cmd = "none"
    /\ Cardinality(transformed) < MaxTransformed
    /\ Transformed("Playlists", "playlist", p, <<p, k>>, k,
                transform_playlist(
                    [playlist_info |-> [PlaylistId |-> p,
                                        PlaylistName |-> "Playlist" \o Str(p)],
                     tracks |-> [n \in 1..k |-> [PlaylistTrackRow(1) EXCEPT !.TrackId = n]]]))

TransformEmployee(e) ==
    /\ pc = "idle"
    /\ cmd = "none"
    /\ Cardinality(transformed) < MaxTransformed
    /\ Transformed("EmployeeManagement", "employee", e, <<e>>, 0,
                transform_employee([EmployeeRow(1) EXCEPT !.EmployeeId = e]))

NextTransform ==
    \/ \E a \in RecordIds : TransformArtist(a)
    \/ \E al \in RecordIds, a \in RecordIds : TransformAlbum(al, a)
    \/ \E t \in RecordIds, al \in RecordIds : TransformTrack(t, al)
    \/ \E c \in RecordIds : TransformCustomerProfile(c)
    \/ \E c \in RecordIds, i \in RecordIds, d \in InvoiceDates,
          k \in ChildCounts(OrderEmbedLimit) : TransformCustomerOrder(c, i, d, k)
    \/ \E p \in RecordIds, k \in ChildCounts(PlaylistEmbedLimit) : TransformPlaylist(p, k)
    \/ \E e \in RecordIds : TransformEmployee(e)

SpecTransform == Init /\ [][NextTransform]_vars

(***************************************************************************)
(* MigrationState as an object next to its file: loading, saving, reset.   *)
(***************************************************************************)
\* operations and file events one behaviour of the store specification goes through
MaxOps == 4

\* what state_file holds when it is not a state document: JSON text cut short or empty
\* (json.JSONDecodeError) or bytes that are not UTF-8 text (UnicodeDecodeError)
MalformedKinds == {"not_json", "not_utf8"}

\* get_state() where it does not raise: the document of the file, else
\* self.default_state.copy(), a copy that shares tables and errors with self.default_state
Current == IF file.kind = "json" THEN file.doc ELSE self_default_state

\* what the operation leaves in self.default_state: it changed tables and errors of the
\* object get_state returned in place, and these are the default's own when the file
\* was not loaded
SharedAfter(new) ==
    IF file.kind = "json" THEN self_default_state
    ELSE [self_default_state EXCEPT !.tables = new.tables, !.errors = new.errors]

\* _save_state(new) at the end of an operation that began with get_state()
Save(new) ==
    /\ file.kind # "not_utf8"
    /\ file' = JsonFile(new)
    /\ self_default_state' = SharedAfter(new)

\* bookkeeping of an operation or file event
Happened(name) ==
    /\ s_ops < MaxOps
    /\ s_ops' = s_ops + 1
    /\ s_last' = name
    /\ UNCHANGED <<state, target, acked, cmd, pc, locals, exitCode>>
    /\ UNCHANGED wvars
    /\ UNCHANGED cvars

Forgotten ==
    /\ loaded' = NoLoad
    /\ crashed' = NoCrash

\* get_state(): read the file; only JSONDecodeError and IOError are caught
GetState ==
    /\ loaded' = IF file.kind = "not_utf8"
                 THEN [kind |-> "raised", doc |-> default_state, before |-> file]
                 ELSE [kind |-> "state", doc |-> Current, before |-> file]
    /\ Happened("get_state")
    /\ UNCHANGED <<file, self_default_state, crashed>>

\* initialize(): save self.default_state.copy() with last_update set
Initialize ==
    /\ file' = JsonFile([self_default_state EXCEPT !.last_update = Now])
    /\ Happened("initialize")
    /\ Forgotten
    /\ UNCHANGED self_default_state

\* reset(): unlink the file if it exists, then initialize()
Reset ==
    /\ file' = JsonFile([self_default_state EXCEPT !.last_update = Now])
    /\ Happened("reset")
    /\ Forgotten
    /\ UNCHANGED self_default_state

StartMigration ==
    /\ Save(start_migration(Current))
    /\ Happened("start_migration")
    /\ Forgotten

CompleteMigration ==
    /\ Save(complete_migration(Current))
    /\ Happened("complete_migration")
    /\ Forgotten

FailMigration ==
    /\ Save(fail_migration(Current, "Failed to migrate MusicCatalog"))
    /\ Happened("fail_migration")
    /\ Forgotten

StartTableMigration(table_name) ==
    /\ Save(start_table_migration(Current, table_name, TotalRecords(table_name)))
    /\ Happened("start_table_migration")
    /\ Forgotten

CompleteTableMigration(table_name) ==
    /\ Save(complete_table_migration(Current, table_name))
    /\ Happened("complete_table_migration")
    /\ Forgotten

UpdateTableProgress(table_name) ==
    /\ Save(update_table_progress(Current, table_name, BatchSize, JInt(BatchSize)))
    /\ Happened("update_table_progress")
    /\ Forgotten

UpdateEntityProgress(entity_type) ==
    /\ Save(update_entity_progress(Current, "MusicCatalog", entity_type, None,
                                   JInt(BatchSize), JInt(BatchSize)))
    /\ Happened("update_entity_progress")
    /\ Forgotten

AddError ==
    /\ Save(add_error(Current, "Error migrating MusicCatalog", "MusicCatalog"))
    /\ Happened("add_error")
    /\ Forgotten

\* somebody removes the state file
FileDeleted ==
    /\ file.kind # "missing"
    /\ file' = NoDocFile("missing")
    /\ Happened("deleted")
    /\ Forgotten
    /\ UNCHANGED self_default_state

\* the state file is overwritten with something that is not a state document
FileCorrupted(kind) ==
    /\ file.kind # kind
    /\ file' = NoDocFile(kind)
    /\ Happened("corrupted")
    /\ Forgotten
    /\ UNCHANGED self_default_state

\* the documents an operation of the running process may be about to save
SavedDocs ==
    {start_migration(Current),
     start_table_migration(Current, "MusicCatalog", TotalRecords("MusicCatalog")),
     update_entity_progress(Current, "MusicCatalog", "artists", None,
                            JInt(BatchSize), JInt(BatchSize))}

\* what a process that dies inside _save_state leaves: the file as it was (before
\* open), an empty or cut-short file (open(..., 'w') has truncated it, json.dump has
\* written nothing or a part), or the whole new document
LeftBySave(new) == {file, NoDocFile("not_json"), JsonFile(new)}

\* the process dies inside _save_state; the next process builds a new MigrationState
CrashInSave ==
    /\ file.kind # "not_utf8"
    /\ \E new \in SavedDocs :
          /\ \E left \in LeftBySave(new) : file' = left
          /\ crashed' = [kind |-> "crash", old |-> Current, new |-> new]
    /\ self_default_state' = default_state
    /\ loaded' = NoLoad
    /\ Happened("crash")

\* the tables and entity types the store specification passes to the operations
StoreTables == {"MusicCatalog", "Playlists"}
StoreEntities == {"artists"}

NextStore ==
    \/ GetState
    \/ Initialize
    \/ Reset
    \/ StartMigration
    \/ CompleteMigration
    \/ Len(Current.errors) < MaxErrors /\ FailMigration
    \/ \E table_name \in StoreTables : StartTableMigration(table_name)
    \/ \E table_name \in StoreTables : CompleteTableMigration(table_name)
    \/ \E table_name \in StoreTables : UpdateTableProgress(table_name)
    \/ \E entity_type \in StoreEntities : UpdateEntityProgress(entity_type)
    \/ Len(Current.errors) < MaxErrors /\ AddError
    \/ FileDeleted
    \/ \E kind \in MalformedKinds : FileCorrupted(kind)
    \/ CrashInSave

SpecStore == Init /\ [][NextStore]_vars

(***************************************************************************)
(* Properties.                                                             *)
(***************************************************************************)
\* the id a persisted cursor stands for; 0 when there is none
CursorVal(c) == IF Truthy(c) THEN ParseInt(Format(c)) ELSE 0

EntityCursor(st, e) == st.tables["MusicCatalog"].entities[e].last_id
TableCursor(st, t) == st.tables[t].last_processed_id

\* every item of the source rows of entity e with id in Ids was in a batch write that
\* returned success
RowsAcked(t, e, Ids) ==
    \A id \in Ids : KeysOf(target_tables[t], RowItems(e, id)) \subseteq acked

EntitySet(t) == {EntitiesOf(t)[n] : n \in 1..Len(EntitiesOf(t))}

\* the items a table holds when every source row of it has been written
ExpectedItems(t) ==
    UNION {UNION {{RowItems(e, id)[n] : n \in 1..Len(RowItems(e, id))} : id \in SourceIds(e)} :
             e \in EntitySet(t)}
ExpectedTarget == [p \in PhysicalTables |->
                     ExpectedItems(CHOOSE t \in TableNames : target_tables[t] = p)]

RoutinePcs == {"query", "loop", "flush", "flush_rest", "persist", "persist_rest", "entity_done"}
Killed == exitCode' = KilledCode

\* C1: a MusicCatalog cursor is never ahead of a row whose batch write has not returned
\* success: every artist, album and track with id <= the persisted cursor of its entity
\* type was in an acknowledged batch write, in every state (so wherever the run stops).
C1_CursorBehindAck ==
    \A e \in {"artists", "albums", "tracks"} :
        RowsAcked("MusicCatalog", e,
                  {id \in SourceIds(e) : id <= CursorVal(EntityCursor(state, e))})

\* a run was killed after the first full batch of artists was written and its cursor saved
C1_Witness ==
    /\ pc = "idle"
    /\ exitCode = KilledCode
    /\ EntityCursor(state, "artists") = JInt(BatchSize)
    /\ EntityCursor(state, "albums") = None

\* the persisted cursor a table's entity query is meant to start after
PersistedCursor(st, t, e) ==
    IF t = "MusicCatalog" THEN get_last_processed_id(st, t, e)
    ELSE get_last_processed_id(st, t, "")

\* C2: for every table and entity type, the rows a query yields are exactly those with
\* id greater than the persisted cursor.
C2_ReadsOnlyAfterCursor ==
    (pc = "loop" /\ row = 0)
        => rows = SortedSeq({id \in SourceIds(entity) :
                               id > CursorVal(PersistedCursor(state, CurTable, entity))})

\* C3: whenever a run ends with the overall status completed - in one pass, or after any
\* interruptions and failures followed by resume or migrate - the target holds exactly the
\* items of the source rows, each with the attributes the transformation gives it.
C3_SameFinalItems ==
    (pc = "idle" /\ state.status = "completed") => target = ExpectedTarget

\* resume finished a migration that was interrupted in the middle of the artists
C3_Witness ==
    /\ pc = "idle"
    /\ cmd = "resume"
    /\ exitCode = 0
    /\ state.status = "completed"
    /\ state.tables["MusicCatalog"].entities["artists"].migrated < NumArtists
    /\ target = ExpectedTarget

\* C4: no step of a migrate or resume process lowers or clears a persisted cursor of any
\* table or entity.
C4_CursorsNeverDecrease ==
    [][/\ \A t \in TableNames :
             CursorVal(TableCursor(state', t)) >= CursorVal(TableCursor(state, t))
       /\ \A e \in {"artists", "albums", "tracks"} :
             CursorVal(EntityCursor(state', e)) >= CursorVal(EntityCursor(state, e))]_vars

\* C5: overall status completed implies every table completed and no error recorded.
C5_CompletedMeansAllTables ==
    state.status = "completed"
        => /\ \A t \in TableNames : state.tables[t].status = "completed"
           /\ state.errors = <<>>

\* C6: while a run is past a table of its loop, that table is persisted as completed.
C6_CompletedBeforeNextTable ==
    (pc # "idle" /\ tblIdx > 0)
        => \A j \in 1..Len(tables_to_migrate(specific_table)) :
              j < tblIdx
                 => state.tables[tables_to_migrate(specific_table)[j]].status = "completed"

\* C7: a table is persisted as completed only if every source row of each of its entity
\* types was in a batch write that returned success.
C7_CompletedOnlyAfterAllAcked ==
    \A t \in TableNames :
        state.tables[t].status = "completed"
            => \A e \in EntitySet(t) : RowsAcked(t, e, SourceIds(e))

\* MusicCatalog was completed by a later run after a batch write of its own had failed
C7_Witness ==
    /\ state.tables["MusicCatalog"].status = "completed"
    /\ state.errors # <<>>
    /\ "table" \in DOMAIN state.errors[1]
    /\ state.errors[1].table = "MusicCatalog"

\* C8: once a table's migration has failed, every further step of the process (unless it
\* is killed) leaves the target and the query position alone, starts no other table, and
\* the process ends with the overall status failed.
C8_FailureAborts ==
    [][(pc \in {"table_except", "run_fail", "return_false"} /\ ~Killed)
          => /\ target' = target
             /\ acked' = acked
             /\ pc' \notin RoutinePcs \cup {"table_loop", "entity_totals"}
             /\ \/ pc = "table_except" /\ pc' = "run_fail" /\ tblIdx' = tblIdx
                \/ /\ pc = "run_fail"
                   /\ pc' = "return_false"
                   /\ tblIdx' = tblIdx
                   /\ state'.status = "failed"
                \/ /\ pc = "return_false"
                   /\ pc' = "idle"
                   /\ exitCode' = 1
                   /\ state' = state
                   /\ state.status = "failed"]_vars

\* CustomerOrders failed: the run ended failed and Playlists was never started
C8_Witness ==
    /\ pc = "idle"
    /\ exitCode = 1
    /\ state.status = "failed"
    /\ state.tables["MusicCatalog"].status = "completed"
    /\ state.tables["CustomerOrders"].status = "in_progress"
    /\ state.tables["Playlists"].status = "not_started"
    /\ Len(state.errors) = 2

\* C9: resume found with an overall status other than in_progress changes neither the
\* state document nor the target and runs no migration step; found with in_progress it
\* runs the migration.
C9_ResumeOnlyInProgress ==
    [][(pc = "resume_check" /\ ~Killed)
          => IF state.status = "in_progress"
             THEN pc' = "run_start" \/ (pc' = "return_true" /\ state'.status = "completed")
             ELSE /\ state' = state
                  /\ target' = target
                  /\ acked' = acked
                  /\ pc' = "idle"
                  /\ exitCode' = (IF state.status = "completed" THEN 0 ELSE 1)]_vars

\* resume was refused after a failed run
C9_Witness ==
    /\ pc = "idle"
    /\ cmd = "resume"
    /\ exitCode = 1
    /\ state.status = "failed"

\* a process is killed inside a save and the state file has lost its document
CutSave == Killed /\ state' # state

\* what holds of a table persisted as completed in every step of a process but a kill
\* inside a save: its TableState is kept, no item is put into its physical table, the
\* process never enters its routine, and at its turn in the loop the only step is the skip
CompletedTableSkippedUnlessCutSave ==
    [][(pc # "idle" /\ ~CutSave)
          => \A t \in TableNames :
                state.tables[t].status = "completed"
                   => /\ state'.tables[t] = state.tables[t]
                      /\ target'[target_tables[t]] \subseteq target[target_tables[t]]
                      /\ pc' \in RoutinePcs \cup {"entity_totals"}
                            => tables_to_migrate(specific_table')[tblIdx'] # t
                      /\ (pc = "table_loop" /\ ~Killed /\ tblIdx <= Len(tables_to_migrate(specific_table))
                            /\ CurTable = t)
                           => (pc' = "table_loop" /\ tblIdx' = tblIdx + 1 /\ state' = state
                               /\ rows' = rows /\ batch_items' = batch_items)]_vars

\* C10: while a process runs, a table persisted as completed keeps its TableState, no item
\* is put into its physical table, and the process never enters that table's routine; at
\* the table's turn in the loop the only step is the skip.
C10_CompletedTableSkipped ==
    [][pc # "idle"
          => \A t \in TableNames :
                state.tables[t].status = "completed"
                   => /\ state'.tables[t] = state.tables[t]
                      /\ target'[target_tables[t]] \subseteq target[target_tables[t]]
                      /\ pc' \in RoutinePcs \cup {"entity_totals"}
                            => tables_to_migrate(specific_table')[tblIdx'] # t
                      /\ (pc = "table_loop" /\ ~Killed /\ tblIdx <= Len(tables_to_migrate(specific_table))
                            /\ CurTable = t)
                           => (pc' = "table_loop" /\ tblIdx' = tblIdx + 1 /\ state' = state
                               /\ rows' = rows /\ batch_items' = batch_items)]_vars

\* a resumed run has skipped MusicCatalog: it is at the second table and has begun none
SkippedMusicCatalog ==
    /\ pc = "table_loop"
    /\ cmd = "resume"
    /\ tblIdx = 2
    /\ state.tables["MusicCatalog"].status = "completed"
    /\ state.current_phase = JStr("initialization")

(***************************************************************************)
(* Flush schedule and counters of an entity routine.                       *)
(***************************************************************************)
Min(a, b) == IF a <= b THEN a ELSE b
CeilDiv(n, b) == (n + b - 1) \div b

\* the items of the source rows lo..hi of an entity type, in id order
RECURSIVE ItemsOfRows(_, _, _)
ItemsOfRows(e, lo, hi) ==
    IF lo > hi THEN <<>> ELSE RowItems(e, lo) \o ItemsOfRows(e, lo + 1, hi)

TableOfEntity(e) == CHOOSE t \in TableNames : e \in EntitySet(t)

\* the persisted counters of an entity type: MusicCatalog keeps them per entity, the
\* other tables in the table record
EntityMigrated(st, e) ==
    IF e \in {"artists", "albums", "tracks"}
    THEN st.tables["MusicCatalog"].entities[e].migrated
    ELSE st.tables[TableOfEntity(e)].records_migrated
EntityTotal(st, e) ==
    IF e \in {"artists", "albums", "tracks"}
    THEN st.tables["MusicCatalog"].entities[e].total
    ELSE st.tables[TableOfEntity(e)].total_records

\* during an uninterrupted run on the initial state, the entity routine of e has so far
\* flushed the rows in id order, BatchSize rows per flush but for a last shorter one, and
\* outside the step between a write and its save the persisted cursor is the last row
\* flushed and migrated is the number of rows flushed; when the routine is over there
\* were ceil(n / BatchSize) flushes and migrated = total = n
FlushesInOrder(e) ==
    LET n == Cardinality(SourceIds(e))
        k == Len(flushes)
    IN  /\ \A j \in 1..k :
               flushes[j] = ItemsOfRows(e, (j - 1) * BatchSize + 1, Min(j * BatchSize, n))
        /\ (k > 0 /\ pc \in {"loop", "flush", "flush_rest", "entity_done"})
              => /\ CursorVal(PersistedCursor(state, TableOfEntity(e), e))
                       = Min(k * BatchSize, n)
                 /\ EntityMigrated(state, e) = Min(k * BatchSize, n)
        /\ pc = "entity_done"
              => /\ k = CeilDiv(n, BatchSize)
                 /\ EntityMigrated(state, e) = n
                 /\ EntityTotal(state, e) = n

\* C11: in an uninterrupted migration, every entity type is flushed in ceil(n/b) batches
\* in ascending id order, cursor and migrated follow each flush, at the end
\* migrated = total = n, and a table the run has finished is persisted as completed.
C11_FlushSchedule ==
    /\ (pc \in RoutinePcs) => FlushesInOrder(entity)
    /\ (pc = "table_loop")
          => \A j \in 1..(tblIdx - 1) : state.tables[TableOrder[j]].status = "completed"

\* the part of C11 that the three MusicCatalog entity routines satisfy
MusicCatalogFlushSchedule ==
    /\ (pc \in RoutinePcs /\ entity \in {"artists", "albums", "tracks"})
          => FlushesInOrder(entity)
    /\ (pc = "table_loop" /\ tblIdx > 1) => state.tables["MusicCatalog"].status = "completed"

\* the artists were flushed in two batches, {1, 2} and {3}, by an uninterrupted run
MusicCatalogFlushed ==
    /\ pc = "entity_done"
    /\ entity = "artists"
    /\ Len(flushes) = CeilDiv(NumArtists, BatchSize)
    /\ EntityMigrated(state, "artists") = NumArtists

(***************************************************************************)
(* Resuming an entity routine after an interruption.                       *)
(***************************************************************************)
\* C12: a resumed run that finds a persisted cursor for a MusicCatalog entity type
\* queries exactly the ids greater than that cursor, and when the entity routine is over
\* the persisted migrated counter of the entity equals its total.
C12_ResumedEntityCounted ==
    (cmd = "resume" /\ pc \in RoutinePcs /\ entity \in {"artists", "albums", "tracks"}
       /\ Truthy(last_ids[entity]))
        => /\ (pc = "loop" /\ row = 0)
                 => rows = SortedSeq({id \in SourceIds(entity) :
                                        id > CursorVal(last_ids[entity])})
           /\ (pc = "entity_done")
                 => EntityMigrated(state, entity) = EntityTotal(state, entity)

\* the query half of C12 alone: the resumed routine reads only ids after the cursor
ResumedQueryAfterCursor ==
    (cmd = "resume" /\ pc = "loop" /\ row = 0 /\ entity \in {"artists", "albums", "tracks"}
       /\ Truthy(last_ids[entity]))
        => rows = SortedSeq({id \in SourceIds(entity) : id > CursorVal(last_ids[entity])})

(***************************************************************************)
(* batch_write_items: delivery, retries, errors and chunk sizes.           *)
(***************************************************************************)
\* the store answered and did not report item k of the request as unprocessed
Acknowledged(e, k) ==
    /\ e.response = "answer"
    /\ k \in Range(e.request)
    /\ k \notin Range(e.unprocessed)

\* the call raised an error that is not a throttling one
Fatal(e) ==
    \/ e.response = "exception"
    \/ e.response = "client_error" /\ e.code \notin ThrottlingCodes

Throttled(e) == e.response = "client_error" /\ e.code \in ThrottlingCodes

\* the batch_write_item calls made for the chunk starting at c, as indices of w_sent
AttemptsOf(c) == {j \in 1..Len(w_sent) : w_sent[j].chunk = c}

\* C13: when batch_write_items returns True, every item of its input was in a request
\* that the store answered without reporting the item as unprocessed.
C13_SuccessMeansAcknowledged ==
    (w_pc = "returned")
        => \A k \in Range(w_items) : \E j \in 1..Len(w_sent) : Acknowledged(w_sent[j], k)

\* a call with two chunks returned True after a partial answer and a throttled retry
C13_Witness ==
    /\ w_pc = "returned"
    /\ Len(w_items) = batch_size + 1
    /\ \E j \in 1..Len(w_sent) : w_sent[j].unprocessed # <<>>
    /\ \E j \in 1..Len(w_sent) : Throttled(w_sent[j])

\* C14: within a chunk, the request that follows an answer reporting unprocessed items
\* holds exactly those items, the request that follows a throttled call is the same
\* request again, and no request holds an item that was acknowledged before.
C14_RetryOnlyUnprocessed ==
    \A j \in 1..Len(w_sent), k \in 1..Len(w_sent) :
        (j < k /\ w_sent[j].chunk = w_sent[k].chunk)
            => /\ (k = j + 1 /\ w_sent[j].response = "answer")
                     => w_sent[k].request = w_sent[j].unprocessed
               /\ (k = j + 1 /\ Throttled(w_sent[j]))
                     => w_sent[k].request = w_sent[j].request
               /\ \A n \in Range(w_sent[k].request) : ~Acknowledged(w_sent[j], n)

\* a partial answer, then the retry of the unprocessed items throttled, then sent again
C14_Witness ==
    \E j \in 1..Len(w_sent) :
        /\ j + 2 <= Len(w_sent)
        /\ w_sent[j].unprocessed # <<>>
        /\ w_sent[j].unprocessed # w_sent[j].request
        /\ Throttled(w_sent[j + 1])
        /\ w_sent[j + 2].request = w_sent[j].unprocessed
        /\ w_sent[j + 2].chunk = w_sent[j].chunk

\* the persisted cursors of the entity types that have one are behind the acknowledged rows
CursorsBehindAcked ==
    /\ \A e \in {"artists", "albums", "tracks"} :
           RowsAcked("MusicCatalog", e,
                     {id \in SourceIds(e) : id <= CursorVal(EntityCursor(state, e))})
    /\ RowsAcked("CustomerOrders", "customers",
                 {id \in CustomerIds : id <= CursorVal(TableCursor(state, "CustomerOrders"))})

\* C15: an error of the store that is not a throttling error is the last call
\* batch_write_items makes - no retry, no later chunk - the call raises, and the engine
\* that called it saves no cursor covering the batch.
C15_FatalErrorAborts ==
    \A j \in 1..Len(w_sent) :
        Fatal(w_sent[j])
            => /\ j = Len(w_sent)
               /\ w_pc = "raised"
               /\ w_sent[j].chunk + batch_size < Len(w_items)
                     => AttemptsOf(w_sent[j].chunk + batch_size) = {}
               /\ (w_caller = "engine")
                     => /\ pc \in {"flush", "flush_rest", "table_except", "run_fail",
                                 "return_false", "idle"}
                        /\ CursorsBehindAcked
                        /\ (pc # "idle")
                              => CursorVal(PersistedCursor(state, CurTable, entity)) < row

\* the second artists batch met a validation error on a retry and the run has failed
C15_Witness ==
    /\ w_caller = "engine"
    /\ pc = "return_false"
    /\ state.status = "failed"
    /\ Len(w_sent) >= 2
    /\ w_sent[Len(w_sent)].code = "ValidationException"
    /\ EntityCursor(state, "artists") = JInt(BatchSize)

\* a validation error in the first of two chunks: the second chunk is never sent
FatalInFirstChunk ==
    /\ w_caller = "direct"
    /\ Len(w_items) = batch_size + 1
    /\ w_pc = "raised"
    /\ Fatal(w_sent[Len(w_sent)])
    /\ AttemptsOf(batch_size) = {}

\* at most max_retries calls per chunk, and a chunk whose last allowed call was
\* throttled or left items unprocessed makes batch_write_items raise
AttemptsBounded ==
    \A j \in 1..Len(w_sent) :
        LET c == w_sent[j].chunk
        IN  /\ Cardinality(AttemptsOf(c)) <= max_retries
            /\ (Cardinality({k \in AttemptsOf(c) : k <= j}) = max_retries
                  /\ (Throttled(w_sent[j]) \/ w_sent[j].unprocessed # <<>>))
                  => (w_pc = "raised" /\ j = Len(w_sent))

\* C16: batch_write_items calls the store at most max_retries times per chunk, throttled
\* calls and partial answers counted together, raises when the last allowed call leaves
\* items unwritten, and every call of it ends by returning or raising.
C16_BoundedAttemptsAndTermination ==
    /\ []AttemptsBounded
    /\ (w_pc \in {"for", "while"}) ~> (w_pc \in {"returned", "raised"})

\* a chunk was tried max_retries times, throttled and partially answered, and the call raised
C16_Witness ==
    /\ w_pc = "raised"
    /\ Len(w_sent) = max_retries
    /\ Throttled(w_sent[1])
    /\ w_sent[max_retries].unprocessed # <<>>

\* the first request of each chunk is the slice of the input that starts at the chunk's
\* offset and is size long, and no request is longer than size
ChunkedBy(size) ==
    \A j \in 1..Len(w_sent) :
        LET c == w_sent[j].chunk
        IN  /\ c % size = 0
            /\ Len(w_sent[j].request) <= size
            /\ (j = 1 \/ w_sent[j - 1].chunk # c)
                  => w_sent[j].request
                        = SubSeq(w_items, c + 1,
                                 IF c + size < Len(w_items) THEN c + size ELSE Len(w_items))

\* C17 as stated: the input is split into consecutive chunks of the configured batch
\* size, and no request holds more items than the configured batch size.
C17_ChunksOfConfiguredSize == ChunkedBy(BatchSize)

\* C17 as the code has it: the input is split into consecutive chunks of 25 items,
\* whatever the configured batch size, and no request holds more than 25 items.
C17_ChunksOfStoreLimit == ChunkedBy(batch_size)

\* an input of 26 items went out as a request of 25 and a request of 1
C17_Witness ==
    /\ w_pc = "returned"
    /\ Len(w_items) = batch_size + 1
    /\ \E j \in 1..Len(w_sent) : w_sent[j].chunk = 0 /\ Len(w_sent[j].request) = batch_size
    /\ \E j \in 1..Len(w_sent) : w_sent[j].chunk = batch_size /\ Len(w_sent[j].request) = 1

(***************************************************************************)
(* The state file: crashes during a save, loading, reset.                  *)
(***************************************************************************)
\* a state document without the time of its last save
Progress(doc) == [doc EXCEPT !.last_update = None]

\* C18: when a process died inside a save, the next load returns the whole document
\* that was persisted before that save or the whole document being saved.
C18_SaveAtomic ==
    (crashed.kind = "crash" /\ s_last = "get_state")
        => /\ loaded.kind = "state"
           /\ Progress(loaded.doc) \in {Progress(crashed.old), Progress(crashed.new)}

\* a process died while saving the first artists cursor of a run in progress, and the
\* next load returned the default state
ProgressLostByCrash ==
    /\ crashed.kind = "crash"
    /\ s_last = "get_state"
    /\ crashed.old.status = "in_progress"
    /\ EntityCursor(crashed.new, "artists") = JInt(BatchSize)
    /\ loaded.doc = default_state

\* C19: get_state never raises; when the state file is missing or malformed it returns
\* the default initial state; and it leaves the file as it found it.
C19_LoadFallsBackToDefault ==
    (s_last = "get_state")
        => /\ loaded.kind = "state"
           /\ (loaded.before.kind # "json") => loaded.doc = default_state
           /\ file = loaded.before

\* get_state found no file and returned a default state that holds an error recorded
\* earlier through the same instance
DefaultCarriesError ==
    /\ s_last = "get_state"
    /\ loaded.kind = "state"
    /\ loaded.before.kind = "missing"
    /\ loaded.doc.errors # <<>>

\* a missing file and text that is not JSON load as the default state, for an instance
\* that has not yet operated on a missing or malformed file
FreshInstanceLoadsDefault ==
    (s_last = "get_state" /\ loaded.before.kind \in {"missing", "not_json"}
       /\ self_default_state = default_state)
        => /\ loaded.kind = "state"
           /\ loaded.doc = default_state
           /\ file = loaded.before

\* C20: after reset the persisted state is the initial state, whatever operations the
\* instance performed before.
C20_ResetRestoresInitialState ==
    (s_last = "reset") => file = JsonFile(initialize)


(***************************************************************************)
(* The commands and the recorded progress.                                 *)
(***************************************************************************)
\* the statuses, counters and cursors of a state document
RecordedProgress(st) == [status |-> st.status, tables |-> st.tables]

\* a step that returns recorded progress to that of the initial state
ProgressDiscarded ==
    /\ RecordedProgress(state) # RecordedProgress(default_state)
    /\ RecordedProgress(state') = RecordedProgress(default_state)

\* C21: reset without --confirm or --force exits 1 and leaves the state unchanged, and
\* the only command that returns recorded statuses, counters and cursors to the initial
\* state is a reset with one of the flags (the removal of the file is no command)
C21_OnlyConfirmedResetDiscards ==
    [][/\ ResetCmd(FALSE) => (state' = state /\ exitCode' = 1)
       /\ ProgressDiscarded => (ResetCmd(TRUE) \/ StateFileRemoved)]_vars

\* init with an existing source is the one other command that discards progress
OnlyResetOrInitDiscards ==
    [][ProgressDiscarded =>
          \/ ResetCmd(TRUE)
          \/ StateFileRemoved
          \/ InitCmd(TRUE, BatchSize)]_vars

\* C22: in every starting state, the one without a state file included, status and validate
\* leave the persisted migration state as it was, and validate leaves the target as it was
C22_StatusAndValidateReadOnly ==
    [][(StatusCmd \/ \E raised \in BOOLEAN : ValidateCmd(raised))
          => (state' = state /\ target' = target)]_vars

\* validate has reported on a migrated target while there was no state file
C22_Witness ==
    /\ pc = "idle"
    /\ cmd = "validate"
    /\ exitCode = 0
    /\ state = default_state
    /\ validation_results = validate_migration(target)
    /\ \A t \in TableNames : validation_results[t].target_count > 0

(***************************************************************************)
(* The persisted counters.                                                 *)
(***************************************************************************)
\* the entity records a table of a state document keeps
EntityRecords(st, t) ==
    IF "entities" \in DOMAIN st.tables[t] THEN st.tables[t].entities ELSE <<>>

\* C23: in every persisted state, every table has records_migrated <= total_records and
\* every entity migrated <= total, a total being 0 until the table is started and from
\* then on the source count taken at that start
C23_MigratedWithinTotals ==
    \A t \in TableNames :
        /\ state.tables[t].records_migrated <= state.tables[t].total_records
        /\ state.tables[t].total_records \in {0, get_source_count_for_table(t)}
        /\ \A e \in DOMAIN EntityRecords(state, t) :
              /\ EntityRecords(state, t)[e].migrated <= EntityRecords(state, t)[e].total
              /\ e \in {"artists", "albums", "tracks"}
                    => EntityRecords(state, t)[e].total \in {0, get_music_catalog_counts[e]}

\* a counter of a table and a counter of an entity have reached their totals
C23_Witness ==
    /\ state.tables["CustomerOrders"].total_records = NumCustomers + NumInvoices
    /\ state.tables["CustomerOrders"].records_migrated = NumCustomers + NumInvoices
    /\ state.tables["MusicCatalog"].entities["artists"].total = NumArtists
    /\ state.tables["MusicCatalog"].entities["artists"].migrated = NumArtists

\* C24: from each persisted snapshot of a migrate or resume run to the next, the first
\* being the state the run inherited, total_records and records_migrated of every table
\* and migrated of every entity do not decrease
C24_CountersNeverDecrease ==
    [][\A t \in TableNames :
          /\ state'.tables[t].total_records >= state.tables[t].total_records
          /\ state'.tables[t].records_migrated >= state.tables[t].records_migrated
          /\ \A e \in DOMAIN EntityRecords(state, t) :
                EntityRecords(state', t)[e].migrated >= EntityRecords(state, t)[e].migrated]_vars

(***************************************************************************)
(* Batch size and validation.                                              *)
(***************************************************************************)
\* C25: whatever batch size init configured, a migration that has completed has left in
\* the target one and the same set of items, that of the source rows
C25_BatchSizeInvariance ==
    \A b \in BatchSizes :
        (config.batch_size = b /\ pc = "idle" /\ cmd = "migrate" /\ exitCode = 0)
            => target = ExpectedTarget

\* a migration with batch size 1 has completed in its first run
C25_Witness ==
    /\ config.batch_size = 1
    /\ pc = "idle"
    /\ cmd = "migrate"
    /\ exitCode = 0
    /\ state.errors = <<>>
    /\ target = ExpectedTarget

\* a migration whose batches are larger than every table has completed in its first run
CompletedWithLargeBatches ==
    /\ config.batch_size = batch_size
    /\ pc = "idle"
    /\ cmd = "migrate"
    /\ exitCode = 0
    /\ state.errors = <<>>
    /\ target = ExpectedTarget

\* C26: when validate follows a migration that has completed without any recorded error
\* and returns its results, it reports for every logical table a source count equal to
\* the number of items in the table's physical store, hence count_match
C26_ValidatorCountsMatch ==
    (/\ pc = "idle" /\ cmd = "validate" /\ exitCode = 0
     /\ state.status = "completed" /\ state.errors = <<>>)
        => \A t \in TableNames :
              /\ validation_results[t].source_count = get_source_count_for_table(t)
              /\ validation_results[t].target_count = Cardinality(target[target_tables[t]])
              /\ validation_results[t].source_count = validation_results[t].target_count
              /\ validation_results[t].count_match

\* validate has reported on a migration that completed without error
C26_Witness ==
    /\ pc = "idle"
    /\ cmd = "validate"
    /\ exitCode = 0
    /\ state.status = "completed"
    /\ state.errors = <<>>
    /\ \A t \in TableNames :
          validation_results[t].count_match /\ validation_results[t].target_count > 0

\* validate has reported a mismatch on a migration that failed part of the way
ValidatorReportsMismatch ==
    /\ pc = "idle"
    /\ cmd = "validate"
    /\ exitCode = 0
    /\ state.status = "failed"
    /\ validation_results["MusicCatalog"].count_match
    /\ ~validation_results["CustomerOrders"].count_match

(***************************************************************************)
(* The items of the transformers.                                          *)
(***************************************************************************)
\* the attribute of an item is there and is the boolean true
IsTrueFlag(item, attr) == attr \in DOMAIN item /\ item[attr] = [BOOL |-> TRUE]

\* C27: a playlist of exactly PlaylistEmbedLimit tracks (as any smaller one) carries the
\* list Tracks, one element per track, and no LargePlaylist; one of PlaylistEmbedLimit + 1
\* tracks carries LargePlaylist = true and no Tracks; TrackCount is the number of tracks
\* in both
C27_PlaylistEmbedding ==
    \A x \in transformed :
        x.entity = "playlist"
            => /\ x.item.TrackCount = [N |-> Str(x.children)]
               /\ x.children <= PlaylistEmbedLimit
                     => /\ "Tracks" \in DOMAIN x.item
                        /\ Len(x.item.Tracks.L) = x.children
                        /\ "LargePlaylist" \notin DOMAIN x.item
               /\ x.children > PlaylistEmbedLimit
                     => /\ IsTrueFlag(x.item, "LargePlaylist")
                        /\ "Tracks" \notin DOMAIN x.item

\* a playlist at the limit and one just over it have been transformed
C27_Witness ==
    /\ \E x \in transformed : x.entity = "playlist" /\ x.children = PlaylistEmbedLimit
    /\ \E x \in transformed : x.entity = "playlist" /\ x.children = PlaylistEmbedLimit + 1

\* the item carries some attribute that is the boolean true
HasTrueFlag(item) ==
    \E attr \in DOMAIN item : DOMAIN item[attr] = {"BOOL"} /\ item[attr].BOOL

\* an order carries LineItems, one element per line item, and LineItemCount is the number
\* of its line items
OrderEmbedsLineItems(x) ==
    /\ x.item.LineItemCount = [N |-> Str(x.children)]
    /\ "LineItems" \in DOMAIN x.item
    /\ Len(x.item.LineItems.L) = x.children

\* C28: an order of exactly OrderEmbedLimit line items carries the list LineItems and no
\* boolean marker; one of OrderEmbedLimit + 1 line items carries a boolean marker set to
\* true and no LineItems; LineItemCount is the number of line items in both
C28_OrderEmbedding ==
    \A x \in transformed :
        x.entity = "order"
            => /\ x.item.LineItemCount = [N |-> Str(x.children)]
               /\ x.children <= OrderEmbedLimit
                     => OrderEmbedsLineItems(x) /\ ~HasTrueFlag(x.item)
               /\ x.children > OrderEmbedLimit
                     => HasTrueFlag(x.item) /\ "LineItems" \notin DOMAIN x.item

\* what the transformer does: above the limit the order has neither the list nor a marker
OrderOverLimitHasNoMarker ==
    \A x \in transformed :
        x.entity = "order"
            => /\ x.item.LineItemCount = [N |-> Str(x.children)]
               /\ x.children <= OrderEmbedLimit
                     => OrderEmbedsLineItems(x) /\ ~HasTrueFlag(x.item)
               /\ x.children > OrderEmbedLimit
                     => ~HasTrueFlag(x.item) /\ "LineItems" \notin DOMAIN x.item

\* C29: within a logical table, the same source record has one (PK, SK), two records that
\* differ in entity type or in primary key have different (PK, SK), and writing the item
\* of a record again leaves the stored items as they were
C29_ItemIdentity ==
    \A x \in transformed, y \in transformed :
        x.table = y.table
            => /\ (x.entity = y.entity /\ x.args = y.args)
                     => ItemKey(x.item) = ItemKey(y.item)
               /\ (x.entity # y.entity \/ x.id # y.id)
                     => ItemKey(x.item) # ItemKey(y.item)
               /\ LET stored == PutItem(PutItem({}, x.item), y.item)
                  IN  /\ PutItem(stored, y.item) = stored
                      /\ PutItem(PutItem(stored, x.item), y.item) = stored
                      /\ (x.entity # y.entity \/ x.id # y.id) => stored = {x.item, y.item}

\* an artist and an album of that artist, which share the partition key, were transformed
C29_Witness ==
    \E x \in transformed, y \in transformed :
        /\ x.entity = "artist"
        /\ y.entity = "album"
        /\ y.args[2] = x.id
        /\ x.item.PK = y.item.PK
        /\ ItemKey(x.item) # ItemKey(y.item)

\* two orders of one customer on one date were transformed
OrdersOfOneDay ==
    \E x \in transformed, y \in transformed :
        /\ x.entity = "order"
        /\ y.entity = "order"
        /\ x.id # y.id
        /\ x.args[1] = y.args[1]
        /\ x.args[3] = y.args[3]
        /\ x.item.PK = y.item.PK

(***************************************************************************)
(* Failure handling and the recorded progress.                             *)
(***************************************************************************)
\* the errors of the first list are the first errors of the second, in the same order
ErrorsRetained(before, after) ==
    /\ Len(before) <= Len(after)
    /\ \A n \in 1..Len(before) : after[n] = before[n]

\* C30: from the failure of a table's batch write to the end of the process, the handling
\* of the failure (add_error, then fail_migration) leaves every table record - statuses,
\* counters and cursors - as it was persisted after the last acknowledged batch, appends to
\* the errors without touching the earlier ones, and changes nothing else of the document
\* but the overall status and the end time
C30_FailureKeepsProgress ==
    [][/\ pc' = "table_except" => state' = state
       /\ (pc \in {"table_except", "run_fail"} /\ ~Killed)
             => /\ state'.tables = state.tables
                /\ ErrorsRetained(state.errors, state'.errors)
                /\ Len(state'.errors) = Len(state.errors) + 1
                /\ \A k \in DOMAIN state \ {"status", "end_time", "errors"} :
                      state'[k] = state[k]
                /\ pc = "table_except"
                      => state'.status = state.status /\ state'.end_time = state.end_time]_vars

\* the second batch of artists failed: the run has ended failed with the table's error
\* before that of the run, and the progress of the first batch is still recorded
C30_Witness ==
    /\ pc = "idle"
    /\ exitCode = 1
    /\ state.status = "failed"
    /\ Len(state.errors) = 2
    /\ "table" \in DOMAIN state.errors[1]
    /\ "table" \notin DOMAIN state.errors[2]
    /\ state.tables["MusicCatalog"].status = "in_progress"
    /\ state.tables["MusicCatalog"].entities["artists"].migrated = BatchSize
    /\ EntityCursor(state, "artists") = JInt(BatchSize)

(***************************************************************************)
(* The exit code and the overall status.                                   *)
(***************************************************************************)
\* C31: when a migrate process that was not killed has returned, its exit code is 0
\* exactly when the persisted overall status is completed and 1 exactly when it is failed
\* (so it never returns with the status in_progress, a failed table creation included)
C31_ExitCodeMatchesStatus ==
    (pc = "idle" /\ cmd = "migrate" /\ exitCode \in {0, 1})
        => /\ exitCode = 0 <=> state.status = "completed"
           /\ exitCode = 1 <=> state.status = "failed"

\* what holds instead: a migrate that found its source database and was not killed ends
\* with exit code 0 and status completed or with exit code 1 and status failed or
\* in_progress; one that did not find it ends with exit code 1 and changes nothing
ExitCodeAndStatus ==
    [][/\ (cmd = "migrate" /\ pc # "idle" /\ pc' = "idle" /\ exitCode' \in {0, 1})
          => /\ exitCode' = 0 <=> state'.status = "completed"
             /\ exitCode' = 1 <=> state'.status \in {"failed", "in_progress"}
       /\ MigrateCmd(FALSE, FALSE, "")
          => (exitCode' = 1 /\ pc' = "idle" /\ state' = state /\ target' = target)]_vars


(***************************************************************************)
(* The order of the writes of a run.                                       *)
(***************************************************************************)
RECURSIVE Flatten(_)
Flatten(batches) == IF batches = <<>> THEN <<>> ELSE Head(batches) \o Flatten(Tail(batches))

\* the items of the entity routine in progress whose batch_write_items calls have
\* returned, in the order in which the routine handed them over
Written == Flatten(flushes)

\* the source primary key of the row an item was made from
SourceKey(item) ==
    LET ty == item.EntityType.S
    IN  ParseInt(IF ty = "Artist" THEN item.ArtistId.N
                 ELSE IF ty = "Album" THEN item.AlbumId.N
                 ELSE IF ty = "Track" THEN item.TrackId.N
                 ELSE IF ty = "CustomerProfile" THEN item.CustomerId.N
                 ELSE IF ty = "Order" THEN item.InvoiceId.N
                 ELSE IF ty = "Playlist" THEN item.PlaylistId.N
                 ELSE item.EmployeeId.N)

\* the rows of an earlier entity type that the run in progress had to write
RowsOfRun(e) == {MusicQuery(e, last_ids[e])[n] : n \in 1..Len(MusicQuery(e, last_ids[e]))}

\* a run works on the tables in the order of the list, and a batch goes to the table
\* the run is working on
OneTableAtATime ==
    /\ (pc # "idle" /\ pc' # "idle") => tblIdx' \in {tblIdx, tblIdx + 1}
    /\ (pc \in {"flush", "flush_rest"} /\ specific_table = "")
          => \A p \in PhysicalTables \ {target_tables[TableOrder[tblIdx]]} :
                target'[p] = target[p]

\* while albums are migrated every artist of the run is acknowledged, and while tracks
\* are migrated every album of the run is
EntityBarriers ==
    /\ (pc \in RoutinePcs /\ entity = "albums")
          => RowsAcked("MusicCatalog", "artists", RowsOfRun("artists"))
    /\ (pc \in RoutinePcs /\ entity = "tracks")
          => /\ RowsAcked("MusicCatalog", "artists", RowsOfRun("artists"))
             /\ RowsAcked("MusicCatalog", "albums", RowsOfRun("albums"))

\* the items of the entity types in Types were handed over in ascending order of source key
KeysAscend(Types) ==
    \A m \in 1..Len(Written) : \A n \in 1..Len(Written) :
        (m < n /\ Written[m].EntityType.S \in Types
               /\ Written[n].EntityType.S = Written[m].EntityType.S)
            => SourceKey(Written[m]) < SourceKey(Written[n])

\* the order items follow the order of the customers query: customer id, then invoice
\* date, then invoice line
OrdersFollowQuery ==
    \A m \in 1..Len(Written) : \A n \in 1..Len(Written) :
        (m < n /\ Written[m].EntityType.S = "Order" /\ Written[n].EntityType.S = "Order")
            => LET ia == SourceKey(Written[m])
                   ib == SourceKey(Written[n])
               IN  \/ InvoiceCustomer(ia) < InvoiceCustomer(ib)
                   \/ /\ InvoiceCustomer(ia) = InvoiceCustomer(ib)
                      /\ \/ InvoiceDay(ia) < InvoiceDay(ib)
                         \/ /\ InvoiceDay(ia) = InvoiceDay(ib)
                            /\ LineItemRow(ia).InvoiceLineId < LineItemRow(ib).InvoiceLineId

RowTypes == {"Artist", "Album", "Track", "CustomerProfile", "Playlist", "Employee"}

\* the store takes the items in ascending order of source key: an item that a request of
\* the running call stored has a greater key than the items of its entity type that the
\* earlier requests of the call stored
StoredInKeyOrder ==
    (w_caller = "engine")
        => \A j \in 1..Len(w_sent) : \A k \in 1..Len(w_sent) :
              j < k => \A a \in w_sent[j].stored : \A b \in w_sent[k].stored :
                          batch_items[a].EntityType.S = batch_items[b].EntityType.S
                              => SourceKey(batch_items[a]) < SourceKey(batch_items[b])

\* every item of the batches handed over before is in the table
EarlierBatchesStored ==
    (pc \in RoutinePcs) => Range(Written) \subseteq target[Physical]

\* the store takes items during a flush only, and only items of the batch of that flush
StoredFromBatch ==
    (pc \in RoutinePcs /\ pc' # "idle")
        => IF pc \in {"flush", "flush_rest"}
           THEN target'[Physical] \ target[Physical] \subseteq Range(batch_items)
           ELSE target' = target

\* C32: the tables are processed one at a time in the order MusicCatalog, CustomerOrders,
\* Playlists, EmployeeManagement; no album is written before every artist of the run is
\* acknowledged and no track before every album; within an entity type the rows are
\* written in strictly ascending order of source primary key
C32_WritesInKeyOrder ==
    /\ [][OneTableAtATime]_vars
    /\ [](EntityBarriers /\ KeysAscend(RowTypes \cup {"Order"}) /\ StoredInKeyOrder)

\* C32 as the code has it: the rows are handed to the store in the order of their query,
\* which is the order of the source primary key but for the order items, which follow
\* their customers (customer id, then invoice date); the store takes the items of one
\* batch before it is handed the next, and within a batch in no order
C32_WritesInQueryOrder ==
    /\ [][OneTableAtATime /\ StoredFromBatch]_vars
    /\ [](EntityBarriers /\ KeysAscend(RowTypes) /\ OrdersFollowQuery
           /\ EarlierBatchesStored)

\* the batch of the last customer holds the order of the later invoice before that of the
\* earlier one, and the store took both orders before the profile handed over first,
\* which it had left unprocessed
C32_Witness ==
    /\ pc \in {"flush", "flush_rest"}
    /\ entity = "customers"
    /\ w_caller = "engine"
    /\ w_pc = "returned"
    /\ is_table_completed(state, "MusicCatalog")
    /\ \E m \in 1..Len(batch_items) : \E n \in 1..Len(batch_items) :
          /\ m < n
          /\ batch_items[m].EntityType.S = "Order"
          /\ batch_items[n].EntityType.S = "Order"
          /\ batch_items[m].PK = batch_items[n].PK
          /\ SourceKey(batch_items[m]) > SourceKey(batch_items[n])
          /\ {m, n} \subseteq w_sent[1].stored
    /\ Len(w_sent) = 2
    /\ w_sent[1].unprocessed = <<1>>
    /\ w_sent[2].stored = {1}

\* the store took the second artist of a batch before the first, which it had left
\* unprocessed and took when it was sent again
RetryInvertsStoreOrder ==
    /\ w_caller = "engine"
    /\ entity = "artists"
    /\ \E j \in 1..Len(w_sent) : \E k \in 1..Len(w_sent) :
          /\ j < k
          /\ \E a \in w_sent[j].stored : \E b \in w_sent[k].stored :
                SourceKey(batch_items[a]) > SourceKey(batch_items[b])

(***************************************************************************)
(* batch_write_items: the time slept between the attempts of a chunk.      *)
(***************************************************************************)
\* the number of the attempt w_sent[j] among the attempts of its chunk
AttemptNo(j) == Cardinality({i \in AttemptsOf(w_sent[j].chunk) : i <= j})

\* the attempt failed in a way that counts as a retry
CountsAsRetry(e) == Throttled(e) \/ (e.response = "answer" /\ e.unprocessed # <<>>)

\* the delays before the retries: 2^k seconds after the k-th attempt of a chunk, nothing
\* after an attempt that succeeded
DelaysDouble ==
    \A j \in 1..Len(w_sent) :
        /\ (CountsAsRetry(w_sent[j]) /\ AttemptNo(j) < max_retries)
              => w_sent[j].slept = 2 ^ AttemptNo(j)
        /\ (w_sent[j].response = "answer" /\ w_sent[j].unprocessed = <<>>)
              => w_sent[j].slept = 0

\* C33: the delay before the k-th retry of a chunk is 2^k seconds (2 s, then 4 s), after a
\* throttling error and after unprocessed items alike, and there is no delay after a
\* successful attempt or after the attempt that exhausts the retry ceiling
C33_BackoffDoubles ==
    /\ DelaysDouble
    /\ \A j \in 1..Len(w_sent) :
          (CountsAsRetry(w_sent[j]) /\ AttemptNo(j) = max_retries) => w_sent[j].slept = 0

\* what holds instead: the last attempt is followed by no delay when it was throttled, and
\* by a delay of 2^max_retries seconds when it left unprocessed items
BackoffAfterLastAttempt ==
    /\ DelaysDouble
    /\ \A j \in 1..Len(w_sent) :
          (CountsAsRetry(w_sent[j]) /\ AttemptNo(j) = max_retries)
              => w_sent[j].slept = IF Throttled(w_sent[j]) THEN 0 ELSE 2 ^ max_retries

(***************************************************************************)
(* Commands that rebuild the target: migrate --force among migrate and     *)
(* resume, each killed anywhere.                                           *)
(***************************************************************************)
NextForce ==
    \/ \E source_exists, f \in BOOLEAN : MigrateCmd(source_exists, f, "")
    \/ ResumeCmd
    \/ ResumeRefused
    \/ ResumeRun
    \/ Kill
    \/ KillInSave
    \/ \E n \in 1..Len(TableOrder) : DeleteTable(n)
    \/ \E n \in 1..Len(TableOrder) : CreateTablesFail(n)
    \/ QuietStep

SpecForce == Init /\ [][NextForce]_vars

\* the target holds an item for every source row of entity e with id in Ids
RowsInTarget(t, e, Ids) ==
    \A id \in Ids :
        \A n \in 1..Len(RowItems(e, id)) :
            \E x \in target[target_tables[t]] : ItemKey(x) = ItemKey(RowItems(e, id)[n])

\* C34: whenever a table's persisted status is completed the target holds an item for
\* every source row of that table, and every source row with id <= a persisted cursor
\* has its item in the target
C34_PersistedProgressIsInTarget ==
    /\ \A t \in TableNames :
          is_table_completed(state, t)
              => \A e \in EntitySet(t) : RowsInTarget(t, e, SourceIds(e))
    /\ \A e \in EntitySet("MusicCatalog") :
          RowsInTarget("MusicCatalog", e,
                       {id \in SourceIds(e) : id <= CursorVal(EntityCursor(state, e))})
    /\ RowsInTarget("CustomerOrders", "customers",
                    {id \in CustomerIds :
                       id <= CursorVal(TableCursor(state, "CustomerOrders"))})

(***************************************************************************)
(* A killed run and the resume that follows it.                            *)
(***************************************************************************)
\* a kill after start_migration was saved leaves the state as last saved, in_progress
KilledRunKeepsState ==
    (Killed /\ pc \notin {"idle", "run_start", "resume_check", "report", "return_true",
                          "return_false"})
        => (state' = state /\ state.status = "in_progress")

\* resume finds the status in_progress and starts a run on the state as it is
ResumeAccepted ==
    (pc = "resume_check" /\ state.status = "in_progress" /\ ~Killed)
        => (pc' = "run_start" /\ state' = state)

\* the query of a resumed routine for an entity in Entities yields the rows after the
\* persisted cursor
ContinuesFromCursors(Entities) ==
    (cmd = "resume" /\ pc = "loop" /\ row = 0 /\ entity \in Entities)
        => rows = SortedSeq({id \in SourceIds(entity) :
                               id > CursorVal(PersistedCursor(state, CurTable, entity))})

AllEntities == {"artists", "albums", "tracks", "customers", "playlists", "employees"}

\* C35: a process killed after migrate saved in_progress and before it saved completed or
\* failed leaves the status in_progress and the cursors of the last saved flush, so the
\* next resume is accepted and continues from those cursors
C35_KilledRunResumesFromCursors ==
    /\ [][KilledRunKeepsState /\ ResumeAccepted]_vars
    /\ []ContinuesFromCursors(AllEntities)

\* what holds instead: the same of a process that was not killed inside a save, with the
\* customers read again from the first one
KilledRunResumes ==
    /\ [][(~CutSave => KilledRunKeepsState) /\ ResumeAccepted]_vars
    /\ []ContinuesFromCursors(AllEntities \ {"customers"})

(***************************************************************************)
(* What start_table_migration and update_entity_progress leave alone.      *)
(***************************************************************************)
\* the cursors and the migrated counters of a state document
CursorsAndCounters(st) ==
    [t \in TableNames |->
        [last_processed_id |-> st.tables[t].last_processed_id,
         records_migrated |-> st.tables[t].records_migrated,
         entities |-> IF "entities" \in DOMAIN st.tables[t]
                      THEN [e \in DOMAIN st.tables[t].entities |->
                               [last_id |-> st.tables[t].entities[e].last_id,
                                migrated |-> st.tables[t].entities[e].migrated]]
                      ELSE <<>>]]

\* the state with the fields of one entity record replaced by the arguments that are
\* not None
WithEntityFields(st, t, e, total, migrated, last_id) ==
    [st EXCEPT !.tables[t].entities[e] =
        [f \in DOMAIN @ |->
            IF f = "total" /\ total # None THEN total.v
            ELSE IF f = "migrated" /\ migrated # None THEN migrated.v
            ELSE IF f = "last_id" /\ last_id # None THEN last_id
            ELSE @[f]]]

EntityOfTable == {<<"MusicCatalog", "artists">>, <<"MusicCatalog", "albums">>,
                  <<"MusicCatalog", "tracks">>, <<"CustomerOrders", "customers">>,
                  <<"CustomerOrders", "orders">>}
CountArgs == {None, JInt(0), JInt(NumArtists)}
CursorArgs == {None, JInt(1), JStr("2")}

\* on the state a run finds when it is about to start a table: the two functions keep
\* cursors and counters, and update_entity_progress changes the fields passed as non-null
\* and nothing else
StoreCallsKeepProgress ==
    (pc \in {"table_loop", "entity_totals"})
        => /\ \A t \in TableNames : \A total \in {0, TotalRecords(t)} :
                 CursorsAndCounters(start_table_migration(state, t, total))
                     = CursorsAndCounters(state)
           /\ \A te \in EntityOfTable : \A total \in CountArgs \ {None} :
                 CursorsAndCounters(update_entity_progress(state, te[1], te[2], total,
                                                           None, None))
                     = CursorsAndCounters(state)
           /\ \A te \in EntityOfTable : \A total \in CountArgs :
                 \A migrated \in CountArgs : \A last_id \in CursorArgs :
                     update_entity_progress(state, te[1], te[2], total, migrated, last_id)
                         = WithEntityFields(state, te[1], te[2], total, migrated, last_id)

\* the start of a table's routine keeps the cursors and counters of every table
BeginTableKeepsProgress ==
    (pc \in {"table_loop", "entity_totals"} /\ pc' \in {"entity_totals", "query"})
        => CursorsAndCounters(state') = CursorsAndCounters(state)

\* C36: start_table_migration(name, total) and update_entity_progress(table, entity,
\* total=...) leave every persisted cursor and every migrated counter of every table
\* unchanged, and update_entity_progress changes only the fields passed as non-null
C36_RestartKeepsProgress ==
    /\ []StoreCallsKeepProgress
    /\ [][BeginTableKeepsProgress]_vars

\* a resumed run has just restarted MusicCatalog, whose artists have a cursor and a
\* counter from the killed run
C36_Witness ==
    /\ cmd = "resume"
    /\ pc = "query"
    /\ CurTable = "MusicCatalog"
    /\ entity = "artists"
    /\ Truthy(EntityCursor(state, "artists"))
    /\ state.tables["MusicCatalog"].entities["artists"].migrated > 0
    /\ state.tables["MusicCatalog"].entities["artists"].total = NumArtists

(***************************************************************************)
(* migrate --table: runs restricted to one table name, known or not, among *)
(* runs over all four tables.                                              *)
(***************************************************************************)
NextTable ==
    \/ \E source_exists, f \in BOOLEAN, t \in SpecificTables : MigrateCmd(source_exists, f, t)
    \/ ErrorsWithin(2, MaxErrors) /\ BeginUnknownTable
    \/ \E n \in 1..Len(TableOrder) : DeleteTable(n)
    \/ \E n \in 1..Len(TableOrder) : CreateTablesFail(n)
    \/ RunStep

SpecTable == Init /\ [][NextTable]_vars

\* a step of a run restricted to a logical table changes the TableState of no other table,
\* adds no item to another physical table and queries only the entities of its own table
OnlyTheNamedTable ==
    (pc # "idle" /\ specific_table \in TableNames)
        => /\ \A t \in TableNames \ {specific_table} : state'.tables[t] = state.tables[t]
           /\ \A p \in PhysicalTables \ {target_tables[specific_table]} :
                 target'[p] \subseteq target[p]
           /\ (pc = "query" /\ pc' = "loop") => entity \in EntitySet(specific_table)

\* C37: migrate --table T queries source rows, writes items and changes the persisted
\* per-table state for the logical table T only; the TableState of every other logical
\* table is left unchanged
C37_OnlyNamedTableTouched == [][OnlyTheNamedTable]_vars

\* migrate --table Playlists, after an earlier run over all tables, has finished its one
\* table: the playlists are written and counted, MusicCatalog is completed as the earlier
\* run left it
C37_Witness ==
    /\ pc = "table_loop"
    /\ cmd = "migrate"
    /\ specific_table = "Playlists"
    /\ tblIdx = 2
    /\ state.tables["Playlists"].records_migrated = NumPlaylists
    /\ target[target_tables["Playlists"]] = ExpectedItems("Playlists")
    /\ is_table_completed(state, "MusicCatalog")
    /\ state.tables["EmployeeManagement"].records_migrated = NumEmployees

\* a step of migrate --table with a name that is no logical table changes no TableState and
\* adds no item; when the run ends, and it did not end in the creation of the target
\* tables when InLoopOnly holds, it ends failed with exit code 1 and an error entry that
\* carries the name
UnknownTableFails(InLoopOnly) ==
    (pc # "idle" /\ specific_table \notin TableNames \cup {""})
        => /\ state'.tables = state.tables
           /\ \A p \in PhysicalTables : target'[p] \subseteq target[p]
           /\ (pc' = "idle" /\ (InLoopOnly => pc \notin CreatePcs))
                 => /\ state'.status = "failed"
                    /\ exitCode' = 1
                    /\ Len(state'.errors) >= 2
                    /\ LET e == state'.errors[Len(state'.errors) - 1]
                       IN  "table" \in DOMAIN e /\ e.table = specific_table

\* C39: migrate --table with a name that is not one of the four logical tables ends with
\* the overall status failed and exit code 1, records an error carrying that table name,
\* writes no item to the target and changes no TableState
C39_UnknownTableRejected == [][UnknownTableFails(FALSE)]_vars

\* what holds instead: the same of the runs that got past the creation of the target
\* tables; a run that ends in it ends in_progress, with exit code 1 and no error entry
UnknownTableRejectedInLoop ==
    [][/\ UnknownTableFails(TRUE)
       /\ (pc \in CreatePcs /\ pc' = "idle")
             => (exitCode' = 1 /\ state' = state /\ state.status = "in_progress")]_vars

\* migrate --table Bogus has failed after a run over all tables had filled the target
UnknownTableHasFailed ==
    /\ pc = "idle"
    /\ cmd = "migrate"
    /\ exitCode = 1
    /\ state.status = "failed"
    /\ Len(state.errors) = 2
    /\ "table" \in DOMAIN state.errors[1]
    /\ state.errors[1].table = UnknownTable
    /\ state.errors[1].message = "Error migrating Bogus: Unknown table: Bogus"
    /\ target = ExpectedTarget
    /\ is_table_completed(state, "MusicCatalog")

(***************************************************************************)
(* resume on a state in which tables were marked completed: migrate and    *)
(* resume, and complete_table_migration called on the state file of a      *)
(* migration that a run left in_progress.                                  *)
(***************************************************************************)
\* complete_table_migration(table_name) called while no command runs (the routines of
\* CustomerOrders, Playlists and EmployeeManagement never call it)
CompleteTableMigrationCall(table_name) ==
    /\ pc = "idle"
    /\ state.status = "in_progress"
    /\ ~is_table_completed(state, table_name)
    /\ state' = complete_table_migration(state, table_name)
    /\ UNCHANGED <<target, acked, cmd, pc, locals, exitCode>>
    /\ UNCHANGED wvars
    /\ UNCHANGED svars
    /\ UNCHANGED cvars

NextResume ==
    \/ \E source_exists \in BOOLEAN : MigrateCmd(source_exists, FALSE, "")
    \/ \E t \in TableNames : CompleteTableMigrationCall(t)
    \/ ResumeCmd
    \/ ResumeStep
    \/ \E n \in 1..Len(TableOrder) : CreateTablesFail(n)
    \/ RunStep

SpecResume == Init /\ [][NextResume]_vars

\* resume has found the status in_progress and every table completed
NothingLeftToResume ==
    /\ pc = "resume_check"
    /\ state.status = "in_progress"
    /\ \A t \in TableNames : is_table_completed(state, t)

\* C38: resume invoked with the overall status in_progress and every table already
\* completed sets the overall status to completed and returns success without a source
\* query, without a target write and without changing any TableState
C38_ResumeWithNothingLeft ==
    [][((NothingLeftToResume \/ pc = "return_true") /\ ~Killed)
          => /\ state'.status = "completed"
             /\ state'.tables = state.tables
             /\ target' = target
             /\ acked' = acked
             /\ rows' = rows
             /\ \/ pc = "resume_check" /\ pc' = "return_true"
                \/ pc = "return_true" /\ pc' = "idle" /\ exitCode' = 0]_vars

\* resume was invoked on an interrupted migration whose four tables are all completed and
\* whose target holds every item
C38_Witness ==
    /\ NothingLeftToResume
    /\ cmd = "resume"
    /\ target = ExpectedTarget
====
